---- MODULE Spec2Model ----
(***************************************************************************)
(* Transport core of the opensubsonic client: authentication parameters   *)
(* (src/auth.rs), request URL construction and response-envelope decoding *)
(* (src/client.rs, src/api/transcoding.rs).                                *)
(*                                                                         *)
(* Text the code looks into (passwords, salts, URLs, header values) is a   *)
(* sequence of one-character strings, bytes are integers 0..255.  Text    *)
(* the code only compares or passes on (JSON keys and strings, response   *)
(* bodies, messages) is a string.                                          *)
(***************************************************************************)
EXTENDS Integers, Sequences, FiniteSets, TLC

(***************************************************************************)
(* Bytes, characters and hex encoding (src/auth.rs)                        *)
(***************************************************************************)

\* The printable ASCII characters, in code order from 32 (space) to 126 (~);
\* backslash and backtick are written by name.
Printable ==
  << " ", "!", "\"", "#", "$", "%", "&", "'", "(", ")", "*", "+", ",", "-", ".", "/",
     "0", "1", "2", "3", "4", "5", "6", "7", "8", "9", ":", ";", "<", "=", ">", "?",
     "@", "A", "B", "C", "D", "E", "F", "G", "H", "I", "J", "K", "L", "M", "N", "O",
     "P", "Q", "R", "S", "T", "U", "V", "W", "X", "Y", "Z", "[", "BACKSLASH", "]", "^", "_",
     "BACKTICK", "a", "b", "c", "d", "e", "f", "g", "h", "i", "j", "k", "l", "m", "n", "o",
     "p", "q", "r", "s", "t", "u", "v", "w", "x", "y", "z", "{", "|", "}", "~" >>

\* The code point of a printable ASCII character.
Ord(c) == 31 + (CHOOSE i \in 1..Len(Printable) : Printable[i] = c)

\* The character of a printable ASCII code.
Chr(b) == Printable[b - 31]

\* str::as_bytes: the UTF-8 bytes of a string; "U+00E9" (e with acute accent) is
\* the one non-ASCII character of the model and takes two bytes.
Utf8(c) == IF c = "U+00E9" THEN <<195, 169>> ELSE <<Ord(c)>>

RECURSIVE as_bytes(_)
as_bytes(s) == IF s = <<>> THEN <<>> ELSE Utf8(Head(s)) \o as_bytes(Tail(s))

LowerHex == <<"0", "1", "2", "3", "4", "5", "6", "7", "8", "9", "a", "b", "c", "d", "e", "f">>

\* format!("{b:02x}"): two lowercase hex digits, zero padded.
FormatByte02x(b) == <<LowerHex[(b \div 16) + 1], LowerHex[(b % 16) + 1]>>

\* hex_encode: bytes.iter().map(|b| format!("{b:02x}")).collect()
RECURSIVE hex_encode(_)
hex_encode(bytes) ==
  IF bytes = <<>> THEN <<>> ELSE FormatByte02x(Head(bytes)) \o hex_encode(Tail(bytes))

(***************************************************************************)
(* MD5 (RFC 1321), the digest behind md5::Md5 in compute_token.  A 32-bit  *)
(* word is a pair <<high 16 bits, low 16 bits>>.                           *)
(***************************************************************************)

\* Bitwise AND of two 4-bit values: AndNibble[a + 1][b + 1].
AndNibble ==
  << <<0, 0, 0, 0, 0, 0, 0, 0, 0, 0, 0, 0, 0, 0, 0, 0>>,
     <<0, 1, 0, 1, 0, 1, 0, 1, 0, 1, 0, 1, 0, 1, 0, 1>>,
     <<0, 0, 2, 2, 0, 0, 2, 2, 0, 0, 2, 2, 0, 0, 2, 2>>,
     <<0, 1, 2, 3, 0, 1, 2, 3, 0, 1, 2, 3, 0, 1, 2, 3>>,
     <<0, 0, 0, 0, 4, 4, 4, 4, 0, 0, 0, 0, 4, 4, 4, 4>>,
     <<0, 1, 0, 1, 4, 5, 4, 5, 0, 1, 0, 1, 4, 5, 4, 5>>,
     <<0, 0, 2, 2, 4, 4, 6, 6, 0, 0, 2, 2, 4, 4, 6, 6>>,
     <<0, 1, 2, 3, 4, 5, 6, 7, 0, 1, 2, 3, 4, 5, 6, 7>>,
     <<0, 0, 0, 0, 0, 0, 0, 0, 8, 8, 8, 8, 8, 8, 8, 8>>,
     <<0, 1, 0, 1, 0, 1, 0, 1, 8, 9, 8, 9, 8, 9, 8, 9>>,
     <<0, 0, 2, 2, 0, 0, 2, 2, 8, 8, 10, 10, 8, 8, 10, 10>>,
     <<0, 1, 2, 3, 0, 1, 2, 3, 8, 9, 10, 11, 8, 9, 10, 11>>,
     <<0, 0, 0, 0, 4, 4, 4, 4, 8, 8, 8, 8, 12, 12, 12, 12>>,
     <<0, 1, 0, 1, 4, 5, 4, 5, 8, 9, 8, 9, 12, 13, 12, 13>>,
     <<0, 0, 2, 2, 4, 4, 6, 6, 8, 8, 10, 10, 12, 12, 14, 14>>,
     <<0, 1, 2, 3, 4, 5, 6, 7, 8, 9, 10, 11, 12, 13, 14, 15>> >>

\* Bitwise AND of two 16-bit values, four bits at a time.
And16(a, b) ==
    AndNibble[(a % 16) + 1][(b % 16) + 1]
  + 16 * AndNibble[((a \div 16) % 16) + 1][((b \div 16) % 16) + 1]
  + 256 * AndNibble[((a \div 256) % 16) + 1][((b \div 256) % 16) + 1]
  + 4096 * AndNibble[(a \div 4096) + 1][(b \div 4096) + 1]

\* a | b = a + b - (a & b) and a ^ b = a + b - 2 (a & b), on each half.
Or16(a, b)  == a + b - And16(a, b)
Xor16(a, b) == a + b - 2 * And16(a, b)

WAnd(x, y) == <<And16(x[1], y[1]), And16(x[2], y[2])>>
WOr(x, y)  == <<Or16(x[1], y[1]), Or16(x[2], y[2])>>
WXor(x, y) == <<Xor16(x[1], y[1]), Xor16(x[2], y[2])>>
WNot(x)    == <<65535 - x[1], 65535 - x[2]>>

\* Addition modulo 2^32.
WAdd(x, y) ==
  LET lo == x[2] + y[2]
      hi == x[1] + y[1] + (lo \div 65536)
  IN  <<hi % 65536, lo % 65536>>

RotlSmall(x, s) ==
  << ((x[1] * (2 ^ s)) % 65536) + (x[2] \div (2 ^ (16 - s))),
     ((x[2] * (2 ^ s)) % 65536) + (x[1] \div (2 ^ (16 - s))) >>

\* Rotate a word left by s bits, 0 < s < 32.
Rotl(x, s) ==
  IF s = 16 THEN <<x[2], x[1]>>
  ELSE IF s > 16 THEN RotlSmall(<<x[2], x[1]>>, s - 16)
  ELSE RotlSmall(x, s)

Md5Shift ==
  << 7, 12, 17, 22, 7, 12, 17, 22, 7, 12, 17, 22, 7, 12, 17, 22,
     5, 9, 14, 20, 5, 9, 14, 20, 5, 9, 14, 20, 5, 9, 14, 20,
     4, 11, 16, 23, 4, 11, 16, 23, 4, 11, 16, 23, 4, 11, 16, 23,
     6, 10, 15, 21, 6, 10, 15, 21, 6, 10, 15, 21, 6, 10, 15, 21 >>

\* floor(2^32 * abs(sin(i))) for i = 1..64.
Md5Sine ==
   <<<<55146, 42104>>, <<59591, 46934>>, <<9248, 28891>>, <<49597, 52974>>,
     <<62844, 4015>>, <<18311, 50730>>, <<43056, 17939>>, <<64838, 38145>>,
     <<27008, 39128>>, <<35652, 63407>>, <<65535, 23473>>, <<35164, 55230>>,
     <<27536, 4386>>, <<64920, 29075>>, <<42617, 17294>>, <<18868, 2081>>,
     <<63006, 9570>>, <<49216, 45888>>, <<9822, 23121>>, <<59830, 51114>>,
     <<54831, 4189>>, <<580, 5203>>, <<55457, 59009>>, <<59347, 64456>>,
     <<8673, 52710>>, <<49975, 2006>>, <<62677, 3463>>, <<17754, 5357>>,
     <<43491, 59653>>, <<64751, 41976>>, <<26479, 729>>, <<36138, 19594>>,
     <<65530, 14658>>, <<34673, 63105>>, <<28061, 24866>>, <<64997, 14348>>,
     <<42174, 59972>>, <<19422, 53161>>, <<63163, 19296>>, <<48831, 48240>>,
     <<10395, 32454>>, <<60065, 10234>>, <<54511, 12421>>, <<1160, 7429>>,
     <<55764, 53305>>, <<59099, 39397>>, <<8098, 31992>>, <<50348, 22117>>,
     <<62505, 8772>>, <<17194, 65431>>, <<43924, 9127>>, <<64659, 41017>>,
     <<25947, 22979>>, <<36620, 52370>>, <<65519, 62589>>, <<34180, 24017>>,
     <<28584, 32335>>, <<65068, 59104>>, <<41729, 17172>>, <<19976, 4513>>,
     <<63315, 32386>>, <<48442, 62005>>, <<10967, 53947>>, <<60294, 54161>>>>

Md5InitState == << <<26437, 8961>>, <<61389, 43913>>, <<39098, 56574>>, <<4146, 21622>> >>

\* Padding: 0x80, zeros up to 56 mod 64, then the bit length as 8 little-endian bytes.
Md5Pad(msg) ==
  LET n    == Len(msg)
      bits == 8 * n
  IN  msg \o <<128>> \o [i \in 1..((55 - n) % 64) |-> 0]
          \o <<bits % 256, (bits \div 256) % 256, (bits \div 65536) % 256, 0, 0, 0, 0, 0>>

\* The sixteen little-endian words of a 64-byte block.
Md5Words(block) ==
  [g \in 1..16 |-> << block[4 * g - 1] + 256 * block[4 * g],
                      block[4 * g - 3] + 256 * block[4 * g - 2] >>]

RECURSIVE Md5Rounds(_, _, _, _, _, _)
Md5Rounds(i, A, B, C, D, M) ==
  IF i = 64 THEN <<A, B, C, D>>
  ELSE LET F == CASE i < 16 -> WOr(WAnd(B, C), WAnd(WNot(B), D))
                  [] i < 32 -> WOr(WAnd(D, B), WAnd(WNot(D), C))
                  [] i < 48 -> WXor(WXor(B, C), D)
                  [] OTHER  -> WXor(C, WOr(B, WNot(D)))
           g == CASE i < 16 -> i
                  [] i < 32 -> (5 * i + 1) % 16
                  [] i < 48 -> (3 * i + 5) % 16
                  [] OTHER  -> (7 * i) % 16
           sum == WAdd(WAdd(WAdd(F, A), Md5Sine[i + 1]), M[g + 1])
           nB  == WAdd(B, Rotl(sum, Md5Shift[i + 1]))
       IN  \* the comparison has the new word computed before the next round starts
           IF nB[1] >= 0 THEN Md5Rounds(i + 1, D, nB, B, C, M) ELSE <<A, B, C, D>>

RECURSIVE Md5Blocks(_, _)
Md5Blocks(st, bytes) ==
  IF bytes = <<>> THEN st
  ELSE LET r == Md5Rounds(0, st[1], st[2], st[3], st[4], Md5Words(SubSeq(bytes, 1, 64)))
       IN  Md5Blocks(<<WAdd(st[1], r[1]), WAdd(st[2], r[2]), WAdd(st[3], r[3]), WAdd(st[4], r[4])>>,
                     SubSeq(bytes, 65, Len(bytes)))

WordBytes(w) == <<w[2] % 256, w[2] \div 256, w[1] % 256, w[1] \div 256>>

\* Md5::new(): a hasher that has consumed nothing.
Md5New == <<>>

\* Digest::update: the hasher consumes data after what it already holds.
Md5Update(hasher, data) == hasher \o data

\* Digest::finalize: the 16-byte digest of everything consumed.
Md5Finalize(hasher) ==
  LET st == Md5Blocks(Md5InitState, Md5Pad(hasher))
  IN  WordBytes(st[1]) \o WordBytes(st[2]) \o WordBytes(st[3]) \o WordBytes(st[4])

(***************************************************************************)
(* Authentication parameters (src/auth.rs)                                 *)
(***************************************************************************)

\* Auth::token(password) and Auth::plain(password)
AuthToken(password) == [kind |-> "Token", password |-> password]
AuthPlain(password) == [kind |-> "Plain", password |-> password]

\* A bug: the salt does not come from the draw.
generate_salt_fixed(bytes) == hex_encode(<<0, 0, 0, 0, 0, 0>>)

\* generate_salt, given the six bytes rng.gen() drew for this call.
generate_salt(bytes) == hex_encode(bytes)

\* A bug: the hasher is fed the salt first.
compute_token_salt_first(password, salt) ==
  hex_encode(Md5Finalize(Md5Update(Md5Update(Md5New, as_bytes(salt)), as_bytes(password))))

\* compute_token: the hasher is fed the password, then the salt.
compute_token(password, salt) ==
  LET h0 == Md5New
      h1 == Md5Update(h0, as_bytes(password))
      h2 == Md5Update(h1, as_bytes(salt))
  IN  hex_encode(Md5Finalize(h2))

\* The Token arm of Auth::params.
TokenParams(password, rngBytes) ==
  LET salt  == generate_salt(rngBytes)
      token == compute_token(password, salt)
  IN  << <<<<"t">>, token>>, <<<<"s">>, salt>> >>

\* A bug: the password is sent as it is.
PlainParamsRaw(password) == << <<<<"p">>, password>> >>

\* The Plain arm of Auth::params.
PlainParams(password) ==
  LET hex_password == hex_encode(as_bytes(password))
  IN  << <<<<"p">>, <<"e", "n", "c", ":">> \o hex_password>> >>

\* A bug: the Token arm also sends what the Plain arm sends.
params_with_plain(auth, rngBytes) ==
  IF auth.kind = "Token"
  THEN TokenParams(auth.password, rngBytes) \o PlainParams(auth.password)
  ELSE PlainParams(auth.password)

\* Auth::params.  rngBytes is what the thread-local generator yields if it is
\* asked; only the Token arm asks.
params(auth, rngBytes) ==
  IF auth.kind = "Token" THEN TokenParams(auth.password, rngBytes)
  ELSE PlainParams(auth.password)

(***************************************************************************)
(* The url crate's Url, as far as build_url uses it: a special-scheme      *)
(* (http, https) URL with a path, an optional query and an optional        *)
(* fragment.  Paths and queries are text; the origin is opaque.            *)
(***************************************************************************)

UpperHex == <<"0", "1", "2", "3", "4", "5", "6", "7", "8", "9", "A", "B", "C", "D", "E", "F">>

\* "%XX" for one byte.
PercentByte(b) == <<"%", UpperHex[(b \div 16) + 1], UpperHex[(b % 16) + 1]>>

RECURSIVE PercentBytes(_)
PercentBytes(bytes) ==
  IF bytes = <<>> THEN <<>> ELSE PercentByte(Head(bytes)) \o PercentBytes(Tail(bytes))

\* The printable ASCII characters the path percent-encode set holds.
PathEncodeSet == {" ", "\"", "#", "<", ">", "?", "BACKTICK", "{", "}"}

\* A character of a path segment as the parser writes it.
PathEncodeChar(c) ==
  IF c = "U+00E9" \/ c \in PathEncodeSet THEN PercentBytes(Utf8(c)) ELSE <<c>>

RECURSIVE PathEncode(_)
PathEncode(seg) ==
  IF seg = <<>> THEN <<>> ELSE PathEncodeChar(Head(seg)) \o PathEncode(Tail(seg))

\* The pieces of s between occurrences of sep (at least one piece).
RECURSIVE SplitOn(_, _)
SplitOn(s, sep) ==
  IF \E i \in 1..Len(s) : s[i] = sep
  THEN LET i == CHOOSE k \in 1..Len(s) : s[k] = sep /\ \A j \in 1..(k - 1) : s[j] # sep
       IN  <<SubSeq(s, 1, i - 1)>> \o SplitOn(SubSeq(s, i + 1, Len(s)), sep)
  ELSE <<s>>

RECURSIVE JoinWith(_, _)
JoinWith(segs, sep) ==
  IF segs = <<>> THEN <<>>
  ELSE IF Len(segs) = 1 THEN Head(segs)
  ELSE Head(segs) \o <<sep>> \o JoinWith(Tail(segs), sep)

IsSingleDot(seg) == seg \in {<<".">>, <<"%", "2", "e">>, <<"%", "2", "E">>}

IsDoubleDot(seg) ==
  seg \in { <<".", ".">>,
            <<".", "%", "2", "e">>, <<".", "%", "2", "E">>,
            <<"%", "2", "e", ".">>, <<"%", "2", "E", ".">>,
            <<"%", "2", "e", "%", "2", "e">>, <<"%", "2", "e", "%", "2", "E">>,
            <<"%", "2", "E", "%", "2", "e">>, <<"%", "2", "E", "%", "2", "E">> }

\* The path state of the URL parser over the remaining input segments: a
\* double-dot segment removes the last segment written, a single-dot segment
\* is skipped, and either leaves an empty last segment when it ends the input.
RECURSIVE PathSegments(_, _)
PathSegments(segs, out) ==
  IF segs = <<>> THEN out
  ELSE LET seg  == PathEncode(Head(segs))
           last == Len(segs) = 1
       IN  IF IsDoubleDot(seg)
           THEN LET popped == IF out = <<>> THEN out ELSE SubSeq(out, 1, Len(out) - 1)
                IN  PathSegments(Tail(segs), IF last THEN Append(popped, <<>>) ELSE popped)
           ELSE IF IsSingleDot(seg)
           THEN PathSegments(Tail(segs), IF last THEN Append(out, <<>>) ELSE out)
           ELSE PathSegments(Tail(segs), Append(out, seg))

\* The path of a special-scheme URL parsed from `input`: it always starts
\* with "/", a leading "/" of the input is the root.
ParsePath(input) ==
  LET body == IF input # <<>> /\ Head(input) = "/" THEN Tail(input) ELSE input
  IN  <<"/">> \o JoinWith(PathSegments(SplitOn(body, "/"), <<>>), "/")

NoQuery == [has |-> FALSE, str |-> <<>>]
SomeQuery(str) == [has |-> TRUE, str |-> str]

\* Url::parse of a base URL given as its parts: the path goes through the
\* parser, query and fragment are kept.
UrlParse(raw) ==
  [origin |-> raw.origin, path |-> ParsePath(raw.path), query |-> raw.query,
   fragment |-> raw.fragment]

\* Url::path
UrlPath(url) == url.path

\* Url::set_path: the new path is parsed like any path; query and fragment stay.
UrlSetPath(url, path) == [url EXCEPT !.path = ParsePath(path)]

\* Url::join(relative): the relative path replaces the base path's last segment.
UrlJoin(url, rel) ==
  LET segs == SplitOn(Tail(url.path), "/")
      dir  == SubSeq(segs, 1, Len(segs) - 1)
  IN  [url EXCEPT !.path = ParsePath(<<"/">> \o JoinWith(Append(dir, rel), "/"))]

\* application/x-www-form-urlencoded byte serializer: ASCII alphanumerics
\* and * - . _ are kept, a space becomes "+", every other byte "%XX".
FormKeep ==
  { "0", "1", "2", "3", "4", "5", "6", "7", "8", "9",
    "A", "B", "C", "D", "E", "F", "G", "H", "I", "J", "K", "L", "M", "N", "O", "P", "Q",
    "R", "S", "T", "U", "V", "W", "X", "Y", "Z",
    "a", "b", "c", "d", "e", "f", "g", "h", "i", "j", "k", "l", "m", "n", "o", "p", "q",
    "r", "s", "t", "u", "v", "w", "x", "y", "z", "*", "-", ".", "_" }

FormEncodeChar(c) ==
  IF c \in FormKeep THEN <<c>>
  ELSE IF c = " " THEN <<"+">>
  ELSE PercentBytes(Utf8(c))

RECURSIVE FormEncode(_)
FormEncode(str) ==
  IF str = <<>> THEN <<>> ELSE FormEncodeChar(Head(str)) \o FormEncode(Tail(str))

\* Serializer::append_pair on the query text: "&" unless the query is still
\* empty, then name=value, both encoded.
AppendPair(query, name, value) ==
  (IF query = <<>> THEN <<>> ELSE query \o <<"&">>)
    \o FormEncode(name) \o <<"=">> \o FormEncode(value)

RECURSIVE AppendPairs(_, _)
AppendPairs(query, pairs) ==
  IF pairs = <<>> THEN query
  ELSE AppendPairs(AppendPair(query, Head(pairs)[1], Head(pairs)[2]), Tail(pairs))

\* The value of a hex digit, or -1.
HexVal(c) ==
  IF \E i \in 1..16 : LowerHex[i] = c THEN (CHOOSE i \in 1..16 : LowerHex[i] = c) - 1
  ELSE IF \E i \in 1..16 : UpperHex[i] = c THEN (CHOOSE i \in 1..16 : UpperHex[i] = c) - 1
  ELSE 0 - 1

\* form_urlencoded decoding of one name or value to bytes: "+" is a space,
\* "%XX" a byte, everything else itself.
RECURSIVE FormDecodeBytes(_)
FormDecodeBytes(str) ==
  IF str = <<>> THEN <<>>
  ELSE IF Head(str) = "+" THEN <<32>> \o FormDecodeBytes(Tail(str))
  ELSE IF Head(str) = "%" /\ Len(str) >= 3 /\ HexVal(str[2]) >= 0 /\ HexVal(str[3]) >= 0
       THEN <<16 * HexVal(str[2]) + HexVal(str[3])>> \o FormDecodeBytes(SubSeq(str, 4, Len(str)))
  ELSE Utf8(Head(str)) \o FormDecodeBytes(Tail(str))

\* String::from_utf8_lossy on printable text: 0xC3 0xA9 is U+00E9, any
\* other byte above 0x7F the replacement character.
RECURSIVE FromUtf8Lossy(_)
FromUtf8Lossy(bytes) ==
  IF bytes = <<>> THEN <<>>
  ELSE IF Len(bytes) >= 2 /\ bytes[1] = 195 /\ bytes[2] = 169
       THEN <<"U+00E9">> \o FromUtf8Lossy(SubSeq(bytes, 3, Len(bytes)))
  ELSE IF Head(bytes) > 127 THEN <<"U+FFFD">> \o FromUtf8Lossy(Tail(bytes))
  ELSE <<Chr(Head(bytes))>> \o FromUtf8Lossy(Tail(bytes))

FormDecode(str) == FromUtf8Lossy(FormDecodeBytes(str))

\* One "name=value" piece: split at the first "=", a piece without "=" has
\* an empty value.
ParsePair(piece) ==
  LET parts == SplitOn(piece, "=")
      name  == Head(parts)
      value == IF Len(parts) = 1 THEN <<>> ELSE SubSeq(piece, Len(name) + 2, Len(piece))
  IN  <<FormDecode(name), FormDecode(value)>>

RECURSIVE ParsePieces(_)
ParsePieces(pieces) ==
  IF pieces = <<>> THEN <<>>
  ELSE IF Head(pieces) = <<>> THEN ParsePieces(Tail(pieces))
  ELSE <<ParsePair(Head(pieces))>> \o ParsePieces(Tail(pieces))

\* Url::query_pairs: the (name, value) pairs of the query text, in order.
QueryPairs(url) == IF url.query.has THEN ParsePieces(SplitOn(url.query.str, "&")) ELSE <<>>

\* Url::query_pairs_mut().append_pair(..)...: the serializer starts at the
\* query the URL already has (an absent query becomes an empty one) and
\* appends to it; the fragment is put back afterwards.
UrlAppendPairs(url, pairs) ==
  [url EXCEPT !.query = SomeQuery(AppendPairs(url.query.str, pairs))]

(***************************************************************************)
(* The client and its request builder (src/client.rs)                      *)
(***************************************************************************)

DEFAULT_API_VERSION == <<"1", ".", "1", "6", ".", "1">>
DEFAULT_CLIENT_NAME == <<"o", "p", "e", "n", "s", "u", "b", "s", "o", "n", "i", "c", "-", "r", "s">>

\* Client::new, for a base URL that parses.
ClientNew(base_url, username, auth) ==
  [base_url    |-> UrlParse(base_url),
   username    |-> username,
   auth        |-> auth,
   client_name |-> DEFAULT_CLIENT_NAME,
   api_version |-> DEFAULT_API_VERSION]

\* A bug: with_client_name writes the name to the version field.
with_client_name_as_version(c, name) == [c EXCEPT !.api_version = name]

\* Client::with_client_name and Client::with_api_version: the client they
\* return.
with_client_name(c, name) == [c EXCEPT !.client_name = name]
with_api_version(c, version) == [c EXCEPT !.api_version = version]

\* The path build_url sets: the base path, "/" unless it ends with one,
\* "rest/", the endpoint.
RestPath(base_path, endpoint) ==
  LET path0 == base_path
      path1 == IF path0 # <<>> /\ path0[Len(path0)] = "/" THEN path0 ELSE Append(path0, "/")
  IN  path1 \o <<"r", "e", "s", "t", "/">> \o endpoint

\* The bug the comment in build_url warns of: Url::join drops the last segment.
WithRestPathJoined(url, endpoint) == UrlJoin(url, <<"r", "e", "s", "t", "/">> \o endpoint)

\* The first block of build_url.
WithRestPath(url, endpoint) == UrlSetPath(url, RestPath(UrlPath(url), endpoint))

\* The pairs the second block of build_url appends, in its order.
RequestPairs(c, auth_params, extra) ==
  << <<<<"u">>, c.username>> >>
    \o auth_params
    \o << <<<<"v">>, c.api_version>>, <<<<"c">>, c.client_name>>,
          <<<<"f">>, <<"j", "s", "o", "n">>>> >>
    \o extra

\* Client::build_url; auth_params is what self.auth.params() returns to
\* this call.
build_url(c, endpoint, extra, auth_params) ==
  UrlAppendPairs(WithRestPath(c.base_url, endpoint), RequestPairs(c, auth_params, extra))

(***************************************************************************)
(* Response bodies: serde_json values                                      *)
(***************************************************************************)

\* Option<T>: None is the empty tuple, Some(x) the one-element tuple.
None == <<>>
Some(x) == <<x>>

\* serde_json::Value.  The tag t is read before the payload v.  An integer
\* is the four 16-bit limbs of its 64-bit two's complement, lowest first;
\* an object is the sequence of its <<key, value>> members (keys distinct),
\* an array the sequence of its elements.
JNull == [t |-> "null", v |-> 0]
JBool(b) == [t |-> "bool", v |-> b]
JStr(str) == [t |-> "str", v |-> str]
JFloat(str) == [t |-> "float", v |-> str]
JInt(limbs) == [t |-> "int", v |-> limbs]
JArr(elems) == [t |-> "arr", v |-> elems]
JObj(members) == [t |-> "obj", v |-> members]

\* The limbs of an integer n that fits 32 bits.
I64(n) ==
  <<n % 65536, (n \div 65536) % 65536,
    IF n < 0 THEN 65535 ELSE 0, IF n < 0 THEN 65535 ELSE 0>>

\* Whether an i64 is in the range of i32 (serde's i32 visitor takes no other).
FitsI32(limbs) ==
  \/ limbs[3] = 0 /\ limbs[4] = 0 /\ limbs[2] < 32768
  \/ limbs[3] = 65535 /\ limbs[4] = 65535 /\ limbs[2] >= 32768

\* The cast `as i32` of an i64: its low 32 bits, read as two's complement.
AsI32(limbs) ==
  (IF limbs[2] >= 32768 THEN limbs[2] - 65536 ELSE limbs[2]) * 65536 + limbs[1]

\* Value::get with a string index.
Get(value, key) ==
  IF value.t = "obj" /\ \E i \in 1..Len(value.v) : value.v[i][1] = key
  THEN Some(value.v[CHOOSE i \in 1..Len(value.v) : value.v[i][1] = key][2])
  ELSE None

\* Option<&Value>::and_then(Value::as_str) and and_then(Value::as_i64).
AsStr(o) == IF Len(o) = 1 /\ o[1].t = "str" THEN Some(o[1].v) ELSE None
AsI64(o) == IF Len(o) = 1 /\ o[1].t = "int" THEN Some(o[1].v) ELSE None

\* Option::unwrap_or.
UnwrapOr(o, default) == IF Len(o) = 1 THEN o[1] ELSE default

(***************************************************************************)
(* The derived Deserialize of the envelope structs                         *)
(***************************************************************************)

\* Whether a field deserializes as Option<T>, T of the JSON type `tag`: the
\* key is absent, or its value is null or of that type.
OptionIs(o, tag) == Len(o) = 0 \/ o[1].t \in {"null", tag}

\* Whether a value deserializes as ApiErrorResponse: an object with an i32
\* `code` and an optional string `message`, or an array of exactly the two.
ApiErrorResponseOk(e) ==
  \/ /\ e.t = "obj"
     /\ LET code == AsI64(Get(e, "code")) IN Len(code) = 1 /\ FitsI32(code[1])
     /\ OptionIs(Get(e, "message"), "str")
  \/ /\ e.t = "arr" /\ Len(e.v) = 2
     /\ e.v[1].t = "int" /\ FitsI32(e.v[1].v)
     /\ e.v[2].t \in {"null", "str"}

\* ApiErrorResponse of a value that deserializes as one.
ApiErrorResponse(e) ==
  IF e.t = "obj"
  THEN [code |-> AsI32(Get(e, "code")[1].v), message |-> AsStr(Get(e, "message"))]
  ELSE [code |-> AsI32(e.v[1].v), message |-> AsStr(Some(e.v[2]))]

\* A bug: `error` is not a field of the struct, so it goes to the payload.
EnvelopeFieldsNoError == {"status", "version", "type", "serverVersion", "openSubsonic"}

\* The fields of SubsonicResponseInner that have a name of their own.
EnvelopeFields == {"status", "version", "type", "serverVersion", "openSubsonic", "error"}

\* Whether a value deserializes as SubsonicResponseInner: an object (a struct
\* with a flattened field is read from a map only) with a string `status`,
\* and every other named field absent, null or of its type.
InnerOk(inner) ==
  /\ inner.t = "obj"
  /\ Len(AsStr(Get(inner, "status"))) = 1
  /\ \A k \in {"version", "type", "serverVersion"} : OptionIs(Get(inner, k), "str")
  /\ OptionIs(Get(inner, "openSubsonic"), "bool")
  /\ LET e == Get(inner, "error")
     IN  Len(e) = 0 \/ e[1].t = "null" \/ ApiErrorResponseOk(e[1])

\* SubsonicResponseInner of a value that deserializes as one; `data` is the
\* flattened map: every member whose key is none of the named fields.
SubsonicResponseInner(inner) ==
  LET e    == Get(inner, "error")
      keys == {inner.v[i][1] : i \in 1..Len(inner.v)} \ EnvelopeFields
  IN  [status |-> Get(inner, "status")[1].v,
       error  |-> IF Len(e) = 0 \/ e[1].t = "null" THEN None ELSE Some(ApiErrorResponse(e[1])),
       data   |-> [k \in keys |-> Get(inner, k)[1]]]

\* The value SubsonicResponseWrapper reads its one field from: the member
\* "subsonic-response" of an object, or the element of a one-element array.
WrapperField(value) ==
  CASE value.t = "obj" -> Get(value, "subsonic-response")
    [] value.t = "arr" /\ Len(value.v) = 1 -> Some(value.v[1])
    [] OTHER -> None

\* serde_json::from_str::<SubsonicResponseWrapper>(text), as an Option of the
\* inner struct: None stands for every Err.  A body is the pair of its text
\* and the value serde_json reads from it ("malformed" when it reads none).
FromStrWrapper(body) ==
  IF body.json.t = "malformed" THEN None
  ELSE LET f == WrapperField(body.json)
       IN  IF Len(f) = 1 /\ InnerOk(f[1]) THEN Some(SubsonicResponseInner(f[1])) ELSE None

(***************************************************************************)
(* Results and the decoding of a response                                  *)
(***************************************************************************)

\* The Result a call returns: Ok values by their kind, Err(Error::X) as X.
ErrApi(code, message) == [kind |-> "Api", val |-> [code |-> code, message |-> message]]
ErrParse(diagnostic) == [kind |-> "Parse", val |-> diagnostic]
ErrHttp(cause) == [kind |-> "Http", val |-> cause]

\* format!("{e}: {text}"): a diagnostic is the sequence of its pieces, "{e}"
\* standing for serde_json's own message.
SerdeDiagnostic(text) == <<"{e}", ": ", text>>

\* A bug: from_code without its arm for 41.
from_code_without_41(code) ==
  CASE code = 0 -> <<"Generic">>
    [] code = 10 -> <<"MissingParameter">>
    [] code = 20 -> <<"ClientMustUpgrade">>
    [] code = 30 -> <<"ServerMustUpgrade">>
    [] code = 40 -> <<"WrongCredentials">>
    [] code = 50 -> <<"NotAuthorized">>
    [] code = 60 -> <<"TrialExpired">>
    [] code = 70 -> <<"NotFound">>
    [] OTHER -> <<>>

\* SubsonicErrorCode::from_code, a variant by its name.
from_code(code) ==
  CASE code = 0 -> Some("Generic")
    [] code = 10 -> Some("MissingParameter")
    [] code = 20 -> Some("ClientMustUpgrade")
    [] code = 30 -> Some("ServerMustUpgrade")
    [] code = 40 -> Some("WrongCredentials")
    [] code = 41 -> Some("TokenAuthNotSupported")
    [] code = 50 -> Some("NotAuthorized")
    [] code = 60 -> Some("TrialExpired")
    [] code = 70 -> Some("NotFound")
    [] OTHER -> None

\* enum SubsonicErrorCode: its variants, and `v as i32` of each.
SubsonicErrorCodes ==
  {"Generic", "MissingParameter", "ClientMustUpgrade", "ServerMustUpgrade", "WrongCredentials",
   "TokenAuthNotSupported", "NotAuthorized", "TrialExpired", "NotFound"}

Discriminant(v) ==
  CASE v = "Generic" -> 0
    [] v = "MissingParameter" -> 10
    [] v = "ClientMustUpgrade" -> 20
    [] v = "ServerMustUpgrade" -> 30
    [] v = "WrongCredentials" -> 40
    [] v = "TokenAuthNotSupported" -> 41
    [] v = "NotAuthorized" -> 50
    [] v = "TrialExpired" -> 60
    [] v = "NotFound" -> 70

\* SubsonicApiError::error_code.
error_code(e) == from_code(e.code)

\* A bug: the error object is not looked at.
ApiErrorGeneric(error, fallback) == ErrApi(0, fallback)

\* inner.error.map_or_else(..): the SubsonicApiError of a failed envelope.
ApiErrorOf(error, fallback) ==
  IF Len(error) = 0
  THEN ErrApi(0, fallback)
  ELSE ErrApi(error[1].code, UnwrapOr(error[1].message, ""))

\* A bug: an error object makes the call fail whatever the status says.
DecodeResponseErrorFirst(body) ==
  LET wrapper == FromStrWrapper(body)
  IN  IF Len(wrapper) = 0 THEN ErrParse(SerdeDiagnostic(body.text))
      ELSE IF wrapper[1].status # "ok" \/ Len(wrapper[1].error) = 1
      THEN ApiErrorOf(wrapper[1].error, "Unknown API error (status != ok but no error object)")
      ELSE [kind |-> "Ok", val |-> wrapper[1].data]

\* A bug: the status is compared without regard to case.
DecodeResponseAnyCase(body) ==
  LET wrapper == FromStrWrapper(body)
  IN  IF Len(wrapper) = 0 THEN ErrParse(SerdeDiagnostic(body.text))
      ELSE IF wrapper[1].status \notin {"ok", "OK", "Ok", "oK"}
      THEN ApiErrorOf(wrapper[1].error, "Unknown API error (status != ok but no error object)")
      ELSE [kind |-> "Ok", val |-> wrapper[1].data]

\* get_response from the parse of the text on.
DecodeResponse(body) ==
  LET wrapper == FromStrWrapper(body)
  IN  IF Len(wrapper) = 0 THEN ErrParse(SerdeDiagnostic(body.text))
      ELSE IF wrapper[1].status # "ok"
      THEN ApiErrorOf(wrapper[1].error, "Unknown API error (status != ok but no error object)")
      ELSE [kind |-> "Ok", val |-> wrapper[1].data]

\* A bug: a success envelope on a binary endpoint is handed on as bytes.
DecodeBytesJsonLenient(body) ==
  LET wrapper == FromStrWrapper(body)
  IN  IF Len(wrapper) = 0 THEN ErrParse(SerdeDiagnostic(body.text))
      ELSE IF wrapper[1].status # "ok"
      THEN ApiErrorOf(wrapper[1].error, "Unknown API error on binary endpoint")
      ELSE [kind |-> "Bytes", val |-> body.text]

\* The JSON branch of get_bytes from the parse of the text on.
DecodeBytesJson(body) ==
  LET wrapper == FromStrWrapper(body)
  IN  IF Len(wrapper) = 0 THEN ErrParse(SerdeDiagnostic(body.text))
      ELSE IF wrapper[1].status # "ok"
      THEN ApiErrorOf(wrapper[1].error, "Unknown API error on binary endpoint")
      ELSE ErrParse(<<"Expected binary response but got JSON with status=ok">>)

\* str::to_lowercase and str::contains, on the ASCII text of a header.
ToLowercase(str) ==
  [i \in 1..Len(str) |-> IF Ord(str[i]) \in 65..90 THEN Chr(Ord(str[i]) + 32) ELSE str[i]]

Contains(str, sub) ==
  \E i \in 0..(Len(str) - Len(sub)) : SubSeq(str, i + 1, i + Len(sub)) = sub

\* A bug: the header is compared as the server spelled it.
ContentTypeAsSent(header) ==
  IF Len(header) = 1 /\ \A i \in 1..Len(header[1]) : header[1][i] # "U+00E9"
  THEN header[1]
  ELSE <<>>

\* The content type get_bytes looks at: the header's value when there is one
\* and HeaderValue::to_str takes it (visible ASCII only), else "", lowercased.
ContentType(header) ==
  IF Len(header) = 1 /\ \A i \in 1..Len(header[1]) : header[1][i] # "U+00E9"
  THEN ToLowercase(header[1])
  ELSE <<>>

IsJsonContentType(content_type) ==
  \/ Contains(content_type, <<"a", "p", "p", "l", "i", "c", "a", "t", "i", "o", "n", "/", "j", "s", "o", "n">>)
  \/ Contains(content_type, <<"t", "e", "x", "t", "/", "j", "s", "o", "n">>)

\* Whether a value deserializes as TranscodeDecision (objects only; the
\* bodies of the model carry none of its list or stream fields).
TranscodeDecisionOk(d) ==
  /\ d.t = "obj"
  /\ \A k \in {"canDirectPlay", "canTranscode"} : Len(Get(d, k)) = 1 /\ Get(d, k)[1].t = "bool"
  /\ \A k \in {"errorReason", "transcodeParams"} : OptionIs(Get(d, k), "str")

\* The tail of both branches of get_transcode_decision: the member
\* "transcodeDecision", then serde_json::from_value.
DecodeDecision(decision) ==
  IF Len(decision) = 0 THEN ErrParse(<<"Missing 'transcodeDecision' in response">>)
  ELSE IF ~TranscodeDecisionOk(decision[1]) THEN ErrParse(<<"{e}">>)
  ELSE [kind |-> "Decision",
        val  |-> [can_direct_play |-> Get(decision[1], "canDirectPlay")[1].v,
                  can_transcode   |-> Get(decision[1], "canTranscode")[1].v,
                  error_reason    |-> AsStr(Get(decision[1], "errorReason"))]]

\* Option::and_then(|e| e.get(key)).
AndThenGet(o, key) == IF Len(o) = 1 THEN Get(o[1], key) ELSE None

\* i32::to_string.
RECURSIVE Digits(_)
Digits(n) == IF n < 10 THEN <<Chr(48 + n)>> ELSE Digits(n \div 10) \o <<Chr(48 + (n % 10))>>

I32ToString(n) == IF n < 0 THEN <<"-">> \o Digits(0 - n) ELSE Digits(n)

\* The POST branch of get_transcode_decision from the parse of the text on:
\* it reads the body as an untyped Value.
DecodePost(body) ==
  IF body.json.t = "malformed" THEN ErrParse(SerdeDiagnostic(body.text))
  ELSE LET inner == Get(body.json, "subsonic-response")
       IN  IF Len(inner) = 0 THEN ErrParse(<<"Missing subsonic-response">>)
           ELSE IF UnwrapOr(AsStr(Get(inner[1], "status")), "") # "ok"
           THEN ErrApi(AsI32(UnwrapOr(AsI64(AndThenGet(Get(inner[1], "error"), "code")), I64(0))),
                       UnwrapOr(AsStr(AndThenGet(Get(inner[1], "error"), "message")), ""))
           ELSE DecodeDecision(Get(inner[1], "transcodeDecision"))

\* The GET branch of get_transcode_decision, given what get_response returned.
DecisionOfResponse(res) ==
  IF res.kind # "Ok" THEN res
  ELSE DecodeDecision(IF "transcodeDecision" \in DOMAIN res.val
                      THEN Some(res.val["transcodeDecision"]) ELSE None)

\* A bug: error_for_status is left out, so an error status goes on to the body.
SendErrorTransportOnly(resp) ==
  IF resp.net = "send_failed" THEN <<[kind |-> "Http", val |-> "send"]>> ELSE <<>>

\* send().await?.error_for_status()?: the Http error the request ends with,
\* if it does.
SendError(resp) ==
  IF resp.net = "send_failed" THEN Some(ErrHttp("send"))
  ELSE IF resp.status \in 400..599 THEN Some(ErrHttp("status"))
  ELSE None

\* resp.text().await? or resp.bytes().await?, then what is made of the body.
WithBody(resp, decoded) == IF resp.net = "body_failed" THEN ErrHttp("body") ELSE decoded

\* What get_response returns for a response.
GetResponseResult(resp) ==
  IF Len(SendError(resp)) = 1 THEN SendError(resp)[1]
  ELSE WithBody(resp, DecodeResponse(resp.body))

\* A bug: every body is tried as an envelope first, whatever its content type.
GetBytesResultSniffing(resp) ==
  IF Len(SendError(resp)) = 1 THEN SendError(resp)[1]
  ELSE IF IsJsonContentType(ContentType(resp.content_type)) \/ Len(FromStrWrapper(resp.body)) = 1
  THEN WithBody(resp, DecodeBytesJson(resp.body))
  ELSE WithBody(resp, [kind |-> "Bytes", val |-> resp.body.text])

\* What get_bytes returns for a response.
GetBytesResult(resp) ==
  IF Len(SendError(resp)) = 1 THEN SendError(resp)[1]
  ELSE IF IsJsonContentType(ContentType(resp.content_type))
  THEN WithBody(resp, DecodeBytesJson(resp.body))
  ELSE WithBody(resp, [kind |-> "Bytes", val |-> resp.body.text])

\* What get_transcode_decision returns for the response to its request.
GetTranscodeDecisionResult(method, resp) ==
  IF method = "GET" THEN DecisionOfResponse(GetResponseResult(resp))
  ELSE IF Len(SendError(resp)) = 1 THEN SendError(resp)[1]
  ELSE WithBody(resp, DecodePost(resp.body))

(***************************************************************************)
(* Inputs of the model                                                     *)
(***************************************************************************)

sesame == <<"s", "e", "s", "a", "m", "e">>
admin  == <<"a", "d", "m", "i", "n">>

\* Passwords: the tests' "sesame" and "pass", and one with a non-ASCII
\* character and a query delimiter.
Passwords == {sesame, <<"p", "a", "s", "s">>, <<"U+00E9", "&">>}

\* Samples of the 2^48 values six random bytes can take: the bytes of the
\* tests' salt "abcdef012345", all zeros, and a mix with small and large bytes.
RngOutputs == {<<171, 205, 239, 1, 35, 69>>, <<0, 0, 0, 0, 0, 0>>, <<9, 255, 16, 160, 7, 128>>}

Auths == {AuthToken(p) : p \in Passwords} \cup {AuthPlain(p) : p \in Passwords}

\* User names: the tests' "admin" and one with characters the query encodes.
Usernames == {admin, <<"a", " ", "b", "&", "c", "=">>}

RawUrl(path, query, fragment) ==
  [origin |-> "https://host.example.com", path |-> path, query |-> query, fragment |-> fragment]

\* Base URLs as given to Client::new: no path, a sub-path with and without a
\* trailing slash, a path the parser encodes, one it shortens, an empty
\* segment, and base URLs that carry a query or a fragment of their own.
BaseUrls ==
  { RawUrl(<<>>, NoQuery, ""),
    RawUrl(<<"/", "m", "u", "s", "i", "c">>, NoQuery, ""),
    RawUrl(<<"/", "m", "u", "s", "i", "c", "/">>, NoQuery, ""),
    RawUrl(<<"/", "m", "y", " ", "m", "u", "s", "i", "c">>, NoQuery, ""),
    RawUrl(<<"/", "a", "/", ".", ".", "/", "m", "/", "%", "2", "e">>, NoQuery, ""),
    RawUrl(<<"/", "/">>, NoQuery, ""),
    RawUrl(<<"/", "m", "u", "s", "i", "c">>, SomeQuery(<<"k", "=", "1">>), ""),
    RawUrl(<<"/">>, SomeQuery(<<>>), ""),
    RawUrl(<<"/", "m", "u", "s", "i", "c">>, NoQuery, "nav") }

ep_ping       == <<"p", "i", "n", "g">>
ep_getArtists == <<"g", "e", "t", "A", "r", "t", "i", "s", "t", "s">>
ep_hls        == <<"h", "l", "s", ".", "m", "3", "u", "8">>
ep_stream     == <<"s", "t", "r", "e", "a", "m">>
ep_getTranscodeDecision ==
  <<"g", "e", "t", "T", "r", "a", "n", "s", "c", "o", "d", "e", "D", "e", "c", "i", "s", "i", "o", "n">>

\* Endpoint names are literals of the api modules.
Endpoints == {ep_ping, ep_getArtists, ep_hls, ep_stream}

k_id     == <<"i", "d">>
k_size   == <<"s", "i", "z", "e">>
k_format == <<"f", "o", "r", "m", "a", "t">>

\* Caller-supplied parameter lists: none, one pair, a repeated key with a
\* repeated value around another key, and values the query has to encode.
ParamLists ==
  { <<>>,
    << <<k_id, <<"4", "2">>>> >>,
    << <<k_id, <<"7">>>>, <<k_size, <<"4", "2">>>>, <<k_id, <<"7">>>> >>,
    << <<k_format, <<"a", "&", "b", "=", "c", " ", "+", "%">>>>, <<k_id, <<"U+00E9">>>> >> }

\* Clients of SpecUrl: every base URL with every user name, under token and
\* plain authentication.
UrlClients ==
  { ClientNew(b, u, a) : b \in BaseUrls, u \in Usernames,
                         a \in {AuthToken(sesame), AuthPlain(sesame)} }

\* The clients of the request pipeline: one per authentication mode.
PipelineClients ==
  { ClientNew(RawUrl(<<"/", "m", "u", "s", "i", "c">>, NoQuery, ""), admin, a) :
      a \in {AuthToken(sesame), AuthPlain(sesame)} }

\* Arguments of get_transcode_decision.
MaxBitRates == {None, Some(320), Some(-1)}
Formats == {None, Some(<<"m", "p", "3">>)}
ClientInfos == {None, Some([name |-> "player", platform |-> "linux"])}

Malformed == [t |-> "malformed", v |-> 0]
Body(text, json) == [text |-> text, json |-> json]

\* {"subsonic-response": {members}}
Envelope(members) == JObj(<< <<"subsonic-response", JObj(members)>> >>)

Failed == <<"status", JStr("failed")>>
StatusOk == <<"status", JStr("ok")>>
License == <<"license", JObj(<< <<"valid", JBool(TRUE)>> >>)>>
Error40 ==
  <<"error", JObj(<< <<"code", JInt(I64(40))>>,
                     <<"message", JStr("Wrong username or password")>> >>)>>

\* Response bodies, each with the value serde_json reads from its text:
\* text that is no JSON, envelopes that succeeded and that failed (with the
\* error object whole, partial, null, absent, or of another shape), envelopes
\* with fields of the wrong type, and JSON without the envelope.
Bodies ==
  << Body("", Malformed),
     Body("<html>Bad Gateway</html>", Malformed),
     Body("{\"subsonic-response\":{\"status\":\"ok\",\"version\":\"1.16.1\"}}",
          Envelope(<<StatusOk, <<"version", JStr("1.16.1")>> >>)),
     Body("{\"subsonic-response\":{\"status\":\"ok\",\"version\":\"1.16.1\",\"type\":\"navidrome\",\"serverVersion\":\"0.52\",\"openSubsonic\":true,\"license\":{\"valid\":true}}}",
          Envelope(<<StatusOk, <<"version", JStr("1.16.1")>>, <<"type", JStr("navidrome")>>,
                     <<"serverVersion", JStr("0.52")>>, <<"openSubsonic", JBool(TRUE)>>, License>>)),
     Body("{\"subsonic-response\":{\"artists\":{\"name\":\"A\"},\"Status\":\"failed\",\"status\":\"ok\",\"count\":2,\"next\":null}}",
          Envelope(<< <<"artists", JObj(<< <<"name", JStr("A")>> >>)>>, <<"Status", JStr("failed")>>,
                      StatusOk, <<"count", JInt(I64(2))>>, <<"next", JNull>> >>)),
     Body("{\"subsonic-response\":{\"status\":\"ok\",\"error\":{\"code\":40,\"message\":\"Wrong username or password\"},\"license\":{\"valid\":true}}}",
          Envelope(<<StatusOk, Error40, License>>)),
     Body("{\"subsonic-response\":{\"status\":\"ok\",\"transcodeDecision\":{\"canDirectPlay\":true,\"canTranscode\":false}}}",
          Envelope(<<StatusOk, <<"transcodeDecision",
                                 JObj(<< <<"canDirectPlay", JBool(TRUE)>>, <<"canTranscode", JBool(FALSE)>> >>)>> >>)),
     Body("{\"subsonic-response\":{\"status\":\"ok\",\"transcodeDecision\":{\"canDirectPlay\":true}}}",
          Envelope(<<StatusOk, <<"transcodeDecision", JObj(<< <<"canDirectPlay", JBool(TRUE)>> >>)>> >>)),
     Body("{\"subsonic-response\":{\"status\":\"failed\",\"error\":{\"code\":40,\"message\":\"Wrong username or password\"}}}",
          Envelope(<<Failed, Error40>>)),
     Body("{\"subsonic-response\":{\"status\":\"failed\",\"version\":\"1.16.1\",\"error\":{\"code\":70},\"license\":{\"valid\":true}}}",
          Envelope(<<Failed, <<"version", JStr("1.16.1")>>,
                     <<"error", JObj(<< <<"code", JInt(I64(70))>> >>)>>, License>>)),
     Body("{\"subsonic-response\":{\"status\":\"failed\",\"error\":{\"code\":-1,\"message\":null}}}",
          Envelope(<<Failed, <<"error", JObj(<< <<"code", JInt(I64(-1))>>, <<"message", JNull>> >>)>> >>)),
     Body("{\"subsonic-response\":{\"status\":\"OK\",\"error\":{\"code\":41,\"message\":\"\"}}}",
          Envelope(<< <<"status", JStr("OK")>>,
                      <<"error", JObj(<< <<"code", JInt(I64(41))>>, <<"message", JStr("")>> >>)>> >>)),
     Body("{\"subsonic-response\":{\"status\":\"failed\"}}", Envelope(<<Failed>>)),
     Body("{\"subsonic-response\":{\"status\":\"failed\",\"error\":null,\"license\":{\"valid\":true}}}",
          Envelope(<<Failed, <<"error", JNull>>, License>>)),
     Body("{\"subsonic-response\":{\"status\":\"Ok\",\"version\":\"1.16.1\"}}",
          Envelope(<< <<"status", JStr("Ok")>>, <<"version", JStr("1.16.1")>> >>)),
     Body("{\"subsonic-response\":{\"status\":\"failed\",\"error\":[40,\"Wrong username or password\"]}}",
          Envelope(<<Failed, <<"error", JArr(<<JInt(I64(40)), JStr("Wrong username or password")>>)>> >>)),
     Body("{\"subsonic-response\":{\"status\":\"failed\",\"error\":{\"code\":4294967336,\"message\":\"wide\"}}}",
          Envelope(<<Failed, <<"error", JObj(<< <<"code", JInt(<<40, 0, 1, 0>>)>>,
                                                <<"message", JStr("wide")>> >>)>> >>)),
     Body("{\"subsonic-response\":{\"status\":\"failed\",\"error\":{\"code\":40.5,\"message\":\"half\"}}}",
          Envelope(<<Failed, <<"error", JObj(<< <<"code", JFloat("40.5")>>,
                                                <<"message", JStr("half")>> >>)>> >>)),
     Body("{\"subsonic-response\":{\"status\":\"ok\",\"openSubsonic\":\"yes\"}}",
          Envelope(<<StatusOk, <<"openSubsonic", JStr("yes")>> >>)),
     Body("{\"subsonic-response\":{\"version\":\"1.16.1\"}}",
          Envelope(<< <<"version", JStr("1.16.1")>> >>)),
     Body("{\"subsonic-response\":\"ok\"}", JObj(<< <<"subsonic-response", JStr("ok")>> >>)),
     Body("{}", JObj(<<>>)),
     Body("{\"response\":{\"status\":\"ok\"}}", JObj(<< <<"response", JObj(<<StatusOk>>)>> >>)),
     Body("[{\"status\":\"ok\"}]", JArr(<<JObj(<<StatusOk>>)>>)),
     Body("null", JNull),
     Body("{\"subsonic-response\":{\"status\":\"\",\"version\":\"1.16.1\"}}",
          Envelope(<< <<"status", JStr("")>>, <<"version", JStr("1.16.1")>> >>)),
     Body("{\"subsonic-response\":{\"status\":null,\"license\":{\"valid\":true}}}",
          Envelope(<< <<"status", JNull>>, License>>)) >>

\* Content-Type headers: none, JSON types in several spellings, a JSON type
\* in a value that is not ASCII, and types that are not JSON.
ContentTypeHeaders ==
  << None,
     Some(<<"a", "p", "p", "l", "i", "c", "a", "t", "i", "o", "n", "/", "j", "s", "o", "n">>),
     Some(<<"A", "p", "p", "l", "i", "c", "a", "t", "i", "o", "n", "/", "J", "S", "O", "N", ";",
            " ", "c", "h", "a", "r", "s", "e", "t", "=", "u", "t", "f", "-", "8">>),
     Some(<<"t", "e", "x", "t", "/", "j", "s", "o", "n">>),
     Some(<<"t", "e", "x", "t", "/", "j", "s", "o", "n", ";", " ", "U+00E9">>),
     Some(<<"a", "u", "d", "i", "o", "/", "m", "p", "e", "g">>) >>

Response(net, status, header, body) ==
  [net |-> net, status |-> status, content_type |-> header, body |-> body]

NoResponse == Response("none", 0, None, Body("", Malformed))

\* What can come back for a request: no response at all, an error status,
\* a body that cannot be read, or status 200 with any header and any body.
Responses ==
  {Response("send_failed", 0, None, Bodies[1])}
    \cup {Response("ok", st, ContentTypeHeaders[2], Bodies[9]) : st \in {404, 500}}
    \cup {Response("body_failed", 200, ContentTypeHeaders[h], Bodies[1]) : h \in {2, 6}}
    \cup {Response("ok", 200, ContentTypeHeaders[h], Bodies[b]) :
            h \in 1..Len(ContentTypeHeaders), b \in 1..Len(Bodies)}

\* Client names and API versions given to the builder methods: the defaults,
\* those of the test builder_methods, and a name the query has to encode.
ClientNames == {DEFAULT_CLIENT_NAME, <<"m", "y", "-", "a", "p", "p">>, <<"a", " ", "&", "b">>}
ApiVersions == {DEFAULT_API_VERSION, <<"1", ".", "1", "5", ".", "0">>}

\* Error codes run from -MaxCode to MaxCode, and the two ends of i32.
MaxCode == 80

Codes == ((0 - MaxCode)..MaxCode) \cup {-2147483647 - 1, 2147483647}

\* The message of an error object.
Messages == {"", "Wrong username or password"}

\* Auth::params is called directly while fewer than this many calls were made.
MaxSignCalls == 3

\* How many operations of the client a behaviour begins.
MaxCalls == 2

(***************************************************************************)
(* State                                                                   *)
(***************************************************************************)

VARIABLES
  client,    \* the Client's configuration
  pc,        \* "ready", "awaiting" (a request is in flight) or "done"
  call,      \* the operation in progress or just finished, and its request
  sent,      \* the HTTP requests the operation has sent
  response,  \* the response to the request, once it has come
  result,    \* what the operation returned
  rng_log,   \* the six bytes rand drew at each Token signing, in order
  salt_log,  \* the salt each Token signing returned, in order
  ncalls     \* how many operations have begun

vars == <<client, pc, call, sent, response, result, rng_log, salt_log, ncalls>>

NoUrl == [origin |-> "", path |-> <<>>, query |-> NoQuery, fragment |-> ""]
NoCall ==
  [op |-> "none", endpoint |-> <<>>, params |-> <<>>, auth_params |-> <<>>, url |-> NoUrl,
   method |-> "none"]
NoResult == [kind |-> "None", val |-> <<>>]

\* What one Auth::params call adds to the logs: the draw and the salt it
\* returned under Token, nothing under Plain.
Signed(r, ps) ==
  IF client.auth.kind = "Token"
  THEN /\ rng_log' = Append(rng_log, r)
       /\ salt_log' = Append(salt_log, ps[2][2])
  ELSE UNCHANGED <<rng_log, salt_log>>

\* A direct call of the public Auth::params on the client's authenticator.
AuthParams ==
  /\ pc = "ready"
  /\ ncalls < MaxSignCalls
  /\ \E r \in RngOutputs :
       \E ps \in {params(client.auth, r)} :
         /\ result' = [kind |-> "Params", val |-> ps]
         /\ Signed(r, ps)
  /\ ncalls' = ncalls + 1
  /\ UNCHANGED <<client, pc, call, sent, response>>

\* Client::build_url, as the URL-only methods call it: the URL is the result.
BuildUrl ==
  /\ pc = "ready"
  /\ ncalls < MaxCalls
  /\ \E r \in RngOutputs :
       \E ps \in {params(client.auth, r)} :
         /\ Signed(r, ps)
         /\ \E endpoint \in Endpoints, extra \in ParamLists :
              LET url == build_url(client, endpoint, extra, ps)
              IN  /\ call' = [op |-> "build_url", endpoint |-> endpoint, params |-> extra,
                              auth_params |-> ps, url |-> url, method |-> "none"]
                  /\ result' = [kind |-> "Url", val |-> url]
  /\ pc' = "done"
  /\ ncalls' = ncalls + 1
  /\ UNCHANGED <<client, sent, response>>

\* A bug: the path and the query are set on the client's base URL itself,
\* not on a clone of it.
BeginInPlace(op, endpoint, extra, method, json_body) ==
  /\ pc = "ready"
  /\ ncalls < MaxCalls
  /\ \E r \in RngOutputs :
       \E ps \in {params(client.auth, r)} :
         /\ Signed(r, ps)
         /\ LET url == build_url(client, endpoint, extra, ps)
            IN  /\ call' = [op |-> op, endpoint |-> endpoint, params |-> extra,
                            auth_params |-> ps, url |-> url, method |-> method]
                /\ sent' = <<[method |-> method, url |-> url, body |-> json_body]>>
                /\ client' = [client EXCEPT !.base_url = url]
  /\ pc' = "awaiting"
  /\ result' = NoResult
  /\ ncalls' = ncalls + 1
  /\ UNCHANGED response

\* A bug: build_url keeps state between calls, so that the second URL of a
\* pair has the caller's pairs twice.
BuildUrlTwiceStateful ==
  /\ pc = "ready"
  /\ ncalls + 2 <= MaxCalls
  /\ \E r1 \in RngOutputs, r2 \in RngOutputs :
       \E ps1 \in {params(client.auth, r1)}, ps2 \in {params(client.auth, r2)} :
         /\ IF client.auth.kind = "Token"
            THEN /\ rng_log' = rng_log \o <<r1, r2>>
                 /\ salt_log' = salt_log \o <<ps1[2][2], ps2[2][2]>>
            ELSE UNCHANGED <<rng_log, salt_log>>
         /\ \E endpoint \in Endpoints, extra \in ParamLists :
              \E url1 \in {build_url(client, endpoint, extra, ps1)},
                 url2 \in {build_url(client, endpoint, extra \o extra, ps2)} :
                /\ call' = [op |-> "build_url_twice", endpoint |-> endpoint, params |-> extra,
                            auth_params |-> ps2, url |-> url2, method |-> "none"]
                /\ result' = [kind |-> "Urls",
                              val |-> <<[auth_params |-> ps1, url |-> url1],
                                        [auth_params |-> ps2, url |-> url2]>>]
  /\ pc' = "done"
  /\ ncalls' = ncalls + 2
  /\ UNCHANGED <<client, sent, response>>

\* Client::build_url called twice in a row with the same endpoint and the
\* same parameters; each call asks Auth::params for its pairs.
BuildUrlTwice ==
  /\ pc = "ready"
  /\ ncalls + 2 <= MaxCalls
  /\ \E r1 \in RngOutputs, r2 \in RngOutputs :
       \E ps1 \in {params(client.auth, r1)}, ps2 \in {params(client.auth, r2)} :
         /\ IF client.auth.kind = "Token"
            THEN /\ rng_log' = rng_log \o <<r1, r2>>
                 /\ salt_log' = salt_log \o <<ps1[2][2], ps2[2][2]>>
            ELSE UNCHANGED <<rng_log, salt_log>>
         /\ \E endpoint \in Endpoints, extra \in ParamLists :
              \E url1 \in {build_url(client, endpoint, extra, ps1)},
                 url2 \in {build_url(client, endpoint, extra, ps2)} :
                /\ call' = [op |-> "build_url_twice", endpoint |-> endpoint, params |-> extra,
                            auth_params |-> ps2, url |-> url2, method |-> "none"]
                /\ result' = [kind |-> "Urls",
                              val |-> <<[auth_params |-> ps1, url |-> url1],
                                        [auth_params |-> ps2, url |-> url2]>>]
  /\ pc' = "done"
  /\ ncalls' = ncalls + 2
  /\ UNCHANGED <<client, sent, response>>

\* An operation up to its first await: it builds the URL and sends one
\* request, with a JSON body when it posts.
Begin(op, endpoint, extra, method, json_body) ==
  /\ pc = "ready"
  /\ ncalls < MaxCalls
  /\ \E r \in RngOutputs :
       \E ps \in {params(client.auth, r)} :
         /\ Signed(r, ps)
         /\ LET url == build_url(client, endpoint, extra, ps)
            IN  /\ call' = [op |-> op, endpoint |-> endpoint, params |-> extra,
                            auth_params |-> ps, url |-> url, method |-> method]
                /\ sent' = <<[method |-> method, url |-> url, body |-> json_body]>>
  /\ pc' = "awaiting"
  /\ result' = NoResult
  /\ ncalls' = ncalls + 1
  /\ UNCHANGED <<client, response>>

\* A bug: a request that ended in an Http error is sent once more.
CompleteRetrying(op, resp, res) ==
  /\ pc = "awaiting"
  /\ call.op = op
  /\ response' = resp
  /\ result' = res
  /\ sent' = IF res.kind = "Http" THEN Append(sent, sent[1]) ELSE sent
  /\ pc' = "done"
  /\ UNCHANGED <<client, call, rng_log, salt_log, ncalls>>

\* The rest of an operation: the response comes and is turned into the result.
Complete(op, resp, res) ==
  /\ pc = "awaiting"
  /\ call.op = op
  /\ response' = resp
  /\ result' = res
  /\ pc' = "done"
  /\ UNCHANGED <<client, call, sent, rng_log, salt_log, ncalls>>

\* Client::get_response, as the JSON endpoint methods call it.
GetResponseBegin ==
  \E endpoint \in {ep_ping, ep_getArtists}, extra \in {<<>>, << <<k_id, <<"4", "2">>>> >>} :
    Begin("get_response", endpoint, extra, "GET", None)

GetResponseComplete ==
  \E resp \in Responses : Complete("get_response", resp, GetResponseResult(resp))

\* Client::get_bytes, as the binary endpoint methods call it.
GetBytesBegin ==
  Begin("get_bytes", ep_stream, << <<k_id, <<"4", "2">>>> >>, "GET", None)

GetBytesComplete ==
  \E resp \in Responses : Complete("get_bytes", resp, GetBytesResult(resp))

\* The parameter list get_transcode_decision makes of its arguments.
TranscodeParams(id, max_bit_rate, format) ==
  << <<k_id, id>> >>
    \o (IF Len(max_bit_rate) = 1
        THEN << <<<<"m", "a", "x", "B", "i", "t", "R", "a", "t", "e">>, I32ToString(max_bit_rate[1])>> >>
        ELSE <<>>)
    \o (IF Len(format) = 1 THEN << <<k_format, format[1]>> >> ELSE <<>>)

\* A bug: the request is posted whether or not there is a client info.
GetTranscodeDecisionBeginAlwaysPost ==
  \E max_bit_rate \in MaxBitRates, format \in Formats, client_info \in ClientInfos :
    Begin("get_transcode_decision", ep_getTranscodeDecision,
          TranscodeParams(<<"4", "2">>, max_bit_rate, format), "POST", client_info)

\* Client::get_transcode_decision: a POST with the client info as JSON body
\* when it is given one, else get_response.
GetTranscodeDecisionBegin ==
  \E max_bit_rate \in MaxBitRates, format \in Formats, client_info \in ClientInfos :
    Begin("get_transcode_decision", ep_getTranscodeDecision,
          TranscodeParams(<<"4", "2">>, max_bit_rate, format),
          IF Len(client_info) = 1 THEN "POST" ELSE "GET", client_info)

GetTranscodeDecisionComplete ==
  \E resp \in Responses :
    Complete("get_transcode_decision", resp, GetTranscodeDecisionResult(call.method, resp))

\* The caller takes the result; the client is ready for the next call.
Return ==
  /\ pc = "done"
  /\ pc' = "ready"
  /\ call' = NoCall
  /\ sent' = <<>>
  /\ response' = NoResponse
  /\ result' = NoResult
  /\ UNCHANGED <<client, rng_log, salt_log, ncalls>>

InitCommon ==
  /\ pc = "ready"
  /\ call = NoCall
  /\ sent = <<>>
  /\ response = NoResponse
  /\ result = NoResult
  /\ rng_log = <<>>
  /\ salt_log = <<>>
  /\ ncalls = 0

\* The authenticator alone, with every password.
InitAuth ==
  /\ client \in {ClientNew(RawUrl(<<>>, NoQuery, ""), admin, a) : a \in Auths}
  /\ InitCommon

NextAuth == AuthParams

SpecAuth == InitAuth /\ [][NextAuth]_vars

\* The request builder alone, with every base URL.
InitUrl ==
  /\ client \in UrlClients
  /\ InitCommon

NextUrl == BuildUrl \/ Return

SpecUrl == InitUrl /\ [][NextUrl]_vars

\* SubsonicApiError::error_code on the error get_response makes of a failed
\* envelope's error object; the call keeps the object it was made of.
ErrorCode ==
  /\ pc = "ready"
  /\ \E code \in Codes, message \in Messages :
       \E e \in {ApiErrorOf(Some([code |-> code, message |-> Some(message)]), "Unknown error")} :
         /\ call' = [NoCall EXCEPT !.op = "error_code", !.params = <<code, message>>]
         /\ result' = [kind |-> "ErrorCode", val |-> [error |-> e.val, known |-> error_code(e.val)]]
  /\ pc' = "done"
  /\ UNCHANGED <<client, sent, response, rng_log, salt_log, ncalls>>

\* The error type alone, with every code.
NextCode == ErrorCode \/ Return

SpecCode == InitUrl /\ [][NextCode]_vars

(***************************************************************************)
(* Endpoint methods                                                        *)
(***************************************************************************)

\* Map::get on the payload map get_response returned.
MapGet(data, key) == IF key \in DOMAIN data THEN Some(data[key]) ELSE None

\* Whether a value deserializes as a Child, for an object that has none of
\* the optional fields of Child: 'id' and 'title' are strings, 'isDir' is a
\* bool or left out.
ChildOk(v) ==
  /\ v.t = "obj"
  /\ Len(AsStr(Get(v, "id"))) = 1 /\ Len(AsStr(Get(v, "title"))) = 1
  /\ Len(Get(v, "isDir")) = 0 \/ Get(v, "isDir")[1].t = "bool"

\* Whether a value deserializes as a field of the type `ty`.
TypeOk(v, ty) ==
  CASE ty = "bool" -> v.t = "bool"
    [] ty = "i64" -> v.t = "int"
    [] ty = "String" -> v.t = "str"
    [] ty = "Option<String>" -> v.t \in {"null", "str"}
    [] ty = "Vec<i32>" -> v.t = "arr" /\ \A i \in 1..Len(v.v) : v.v[i].t = "int" /\ FitsI32(v.v[i].v)
    [] ty = "i32" -> v.t = "int" /\ FitsI32(v.v)
    [] ty = "f64" -> v.t \in {"int", "float"}
    [] ty = "Option<i64>" -> v.t \in {"null", "int"}
    [] ty = "Option<bool>" -> v.t \in {"null", "bool"}
    [] ty = "Vec<String>" -> v.t = "arr" /\ \A i \in 1..Len(v.v) : v.v[i].t = "str"
    [] ty = "Vec<Child>" -> v.t = "arr" /\ \A i \in 1..Len(v.v) : ChildOk(v.v[i])

\* The field types a struct may leave out: Option fields, and the Vec fields
\* of these structs, which are all marked #[serde(default)].
AbsentOk == {"Option<String>", "Option<i64>", "Option<bool>", "Vec<String>", "Vec<Child>"}

\* Whether a value deserializes as a struct with these <<name, type>> fields
\* (derived Deserialize): an object in which every field that is no Option
\* and has no default is present and every present field is of its type, or
\* an array of exactly the fields in order.
StructOk(v, fields) ==
  \/ /\ v.t = "obj"
     /\ \A i \in 1..Len(fields) :
          LET o == Get(v, fields[i][1])
          IN  IF Len(o) = 0 THEN fields[i][2] \in AbsentOk ELSE TypeOk(o[1], fields[i][2])
  \/ /\ v.t = "arr"
     /\ Len(v.v) = Len(fields)
     /\ \A i \in 1..Len(fields) : TypeOk(v.v[i], fields[i][2])

\* Ok(serde_json::from_value(v)?) into a struct and into a Vec of structs.
FromValue(v, fields) ==
  IF StructOk(v, fields) THEN [kind |-> "Object", val |-> v] ELSE ErrParse(<<"{e}">>)

FromValueVec(v, fields) ==
  IF v.t = "arr" /\ \A i \in 1..Len(v.v) : StructOk(v.v[i], fields)
  THEN [kind |-> "List", val |-> v.v]
  ELSE ErrParse(<<"{e}">>)

\* A bug: the container of the list is asked for as a mandatory field is.
get_music_folders_strict(res) ==
  IF res.kind # "Ok" THEN res
  ELSE IF Len(MapGet(res.val, "musicFolders")) = 0
  THEN ErrParse(<<"Missing 'musicFolders' in response">>)
  ELSE FromValueVec(UnwrapOr(AndThenGet(MapGet(res.val, "musicFolders"), "musicFolder"), JArr(<<>>)),
                    << <<"id", "i64">>, <<"name", "Option<String>">> >>)

\* Client::get_license, from the result of get_response on.
get_license(res) ==
  IF res.kind # "Ok" THEN res
  ELSE LET license == MapGet(res.val, "license")
       IN  IF Len(license) = 0 THEN ErrParse(<<"Missing 'license' in response">>)
           ELSE FromValue(license[1],
                          << <<"valid", "bool">>, <<"email", "Option<String>">>,
                             <<"licenseExpires", "Option<String>">>,
                             <<"trialExpires", "Option<String>">> >>)

\* Client::get_music_folders, from the result of get_response on.
get_music_folders(res) ==
  IF res.kind # "Ok" THEN res
  ELSE FromValueVec(UnwrapOr(AndThenGet(MapGet(res.val, "musicFolders"), "musicFolder"), JArr(<<>>)),
                    << <<"id", "i64">>, <<"name", "Option<String>">> >>)

\* Client::get_open_subsonic_extensions, from the result of get_response on.
get_open_subsonic_extensions(res) ==
  IF res.kind # "Ok" THEN res
  ELSE FromValueVec(UnwrapOr(MapGet(res.val, "openSubsonicExtensions"), JArr(<<>>)),
                    << <<"name", "String">>, <<"versions", "Vec<i32>">> >>)

\* Client::get_lyrics, from the result of get_response on.
get_lyrics(res) ==
  IF res.kind # "Ok" THEN res
  ELSE FromValue(UnwrapOr(MapGet(res.val, "lyrics"), JObj(<<>>)),
                 << <<"value", "Option<String>">>, <<"artist", "Option<String>">>,
                    <<"title", "Option<String>">> >>)

\* The endpoint methods of the model, the endpoint each one asks for, and
\* what each makes of get_response's result.
EndpointMethods == {"get_license", "get_music_folders", "get_open_subsonic_extensions", "get_lyrics"}

EndpointOf(method) ==
  CASE method = "get_license" -> <<"g", "e", "t", "L", "i", "c", "e", "n", "s", "e">>
    [] method = "get_music_folders" ->
         <<"g", "e", "t", "M", "u", "s", "i", "c", "F", "o", "l", "d", "e", "r", "s">>
    [] method = "get_open_subsonic_extensions" ->
         <<"g", "e", "t", "O", "p", "e", "n", "S", "u", "b", "s", "o", "n", "i", "c",
           "E", "x", "t", "e", "n", "s", "i", "o", "n", "s">>
    [] method = "get_lyrics" -> <<"g", "e", "t", "L", "y", "r", "i", "c", "s">>

MethodResult(method, res) ==
  CASE method = "get_license" -> get_license(res)
    [] method = "get_music_folders" -> get_music_folders(res)
    [] method = "get_open_subsonic_extensions" -> get_open_subsonic_extensions(res)
    [] method = "get_lyrics" -> get_lyrics(res)

\* Bodies for the endpoint methods: success envelopes without a payload, with
\* each method's payload whole, partial, null or of another shape, and with
\* the container of a list empty; a failed envelope; text that is no JSON.
ApiBodies ==
  << Bodies[2], Bodies[3], Bodies[4], Bodies[9],
     Body("{\"subsonic-response\":{\"status\":\"ok\",\"license\":{\"email\":\"a@b.c\"}}}",
          Envelope(<<StatusOk, <<"license", JObj(<< <<"email", JStr("a@b.c")>> >>)>> >>)),
     Body("{\"subsonic-response\":{\"status\":\"ok\",\"license\":null}}",
          Envelope(<<StatusOk, <<"license", JNull>> >>)),
     Body("{\"subsonic-response\":{\"status\":\"ok\",\"license\":[true,null,null,null]}}",
          Envelope(<<StatusOk, <<"license", JArr(<<JBool(TRUE), JNull, JNull, JNull>>)>> >>)),
     Body("{\"subsonic-response\":{\"status\":\"ok\",\"musicFolders\":{}}}",
          Envelope(<<StatusOk, <<"musicFolders", JObj(<<>>)>> >>)),
     Body("{\"subsonic-response\":{\"status\":\"ok\",\"musicFolders\":null}}",
          Envelope(<<StatusOk, <<"musicFolders", JNull>> >>)),
     Body("{\"subsonic-response\":{\"status\":\"ok\",\"musicFolders\":{\"musicFolder\":[{\"id\":1,\"name\":\"Music\"},{\"id\":2}]}}}",
          Envelope(<<StatusOk,
                     <<"musicFolders",
                       JObj(<< <<"musicFolder",
                                 JArr(<<JObj(<< <<"id", JInt(I64(1))>>, <<"name", JStr("Music")>> >>),
                                        JObj(<< <<"id", JInt(I64(2))>> >>)>>)>> >>)>> >>)),
     Body("{\"subsonic-response\":{\"status\":\"ok\",\"musicFolders\":{\"musicFolder\":[{\"name\":\"Music\"}]}}}",
          Envelope(<<StatusOk,
                     <<"musicFolders",
                       JObj(<< <<"musicFolder", JArr(<<JObj(<< <<"name", JStr("Music")>> >>)>>)>> >>)>> >>)),
     Body("{\"subsonic-response\":{\"status\":\"ok\",\"musicFolders\":{\"musicFolder\":null}}}",
          Envelope(<<StatusOk, <<"musicFolders", JObj(<< <<"musicFolder", JNull>> >>)>> >>)),
     Body("{\"subsonic-response\":{\"status\":\"ok\",\"openSubsonicExtensions\":[{\"name\":\"songLyrics\",\"versions\":[1]}]}}",
          Envelope(<<StatusOk,
                     <<"openSubsonicExtensions",
                       JArr(<<JObj(<< <<"name", JStr("songLyrics")>>,
                                      <<"versions", JArr(<<JInt(I64(1))>>)>> >>)>>)>> >>)),
     Body("{\"subsonic-response\":{\"status\":\"ok\",\"openSubsonicExtensions\":{}}}",
          Envelope(<<StatusOk, <<"openSubsonicExtensions", JObj(<<>>)>> >>)),
     Body("{\"subsonic-response\":{\"status\":\"ok\",\"lyrics\":{\"value\":\"la la\",\"artist\":\"A\"}}}",
          Envelope(<<StatusOk, <<"lyrics", JObj(<< <<"value", JStr("la la")>>,
                                                   <<"artist", JStr("A")>> >>)>> >>)),
     Body("{\"subsonic-response\":{\"status\":\"ok\",\"lyrics\":{\"value\":7}}}",
          Envelope(<<StatusOk, <<"lyrics", JObj(<< <<"value", JInt(I64(7))>> >>)>> >>)) >>

\* What can come back to an endpoint method: no response, an error status,
\* a body that cannot be read, or status 200 with any of the bodies.
ApiResponses ==
  {Response("send_failed", 0, None, Bodies[1]),
   Response("ok", 500, ContentTypeHeaders[2], Bodies[9]),
   Response("body_failed", 200, ContentTypeHeaders[2], Bodies[1])}
    \cup {Response("ok", 200, ContentTypeHeaders[2], ApiBodies[b]) : b \in 1..Len(ApiBodies)}

\* An endpoint method up to the await in get_response, and from it on.
EndpointBegin ==
  \E method \in EndpointMethods : Begin(method, EndpointOf(method), <<>>, "GET", None)

EndpointComplete ==
  /\ call.op \in EndpointMethods
  /\ \E resp \in ApiResponses :
       Complete(call.op, resp, MethodResult(call.op, GetResponseResult(resp)))

\* The client with all its operations.
Init ==
  /\ client \in PipelineClients
  /\ InitCommon

Next ==
  \/ AuthParams
  \/ BuildUrl
  \/ GetResponseBegin
  \/ GetResponseComplete
  \/ GetBytesBegin
  \/ GetBytesComplete
  \/ GetTranscodeDecisionBegin
  \/ GetTranscodeDecisionComplete
  \/ Return

Spec == Init /\ [][Next]_vars

\* The builder methods: the caller replaces its client by the one returned.
WithClientName ==
  /\ pc = "ready"
  /\ \E name \in ClientNames :
       /\ client' = with_client_name(client, name)
       /\ call' = [NoCall EXCEPT !.op = "with_client_name", !.params = <<name>>]
  /\ UNCHANGED <<pc, sent, response, result, rng_log, salt_log, ncalls>>

WithApiVersion ==
  /\ pc = "ready"
  /\ \E version \in ApiVersions :
       /\ client' = with_api_version(client, version)
       /\ call' = [NoCall EXCEPT !.op = "with_api_version", !.params = <<version>>]
  /\ UNCHANGED <<pc, sent, response, result, rng_log, salt_log, ncalls>>

\* The client with its builder methods and the request builder.
NextBuilder == WithClientName \/ WithApiVersion \/ BuildUrl \/ Return

SpecBuilder == Init /\ [][NextBuilder]_vars

\* The request builder called twice with the same inputs.
NextTwice == BuildUrlTwice \/ Return

SpecTwice == Init /\ [][NextTwice]_vars

(***************************************************************************)
(* Calls issued concurrently on one shared client.  Each variable that     *)
(* holds one call's state in Spec holds one value per task here, and sent  *)
(* is the list of the requests of all tasks in the order they went out.    *)
(***************************************************************************)

\* How many calls run concurrently.
MaxTasks == 2

Tasks == 1..MaxTasks

\* The locals of a task: those of a call, and the salt Auth::params holds
\* between generate_salt and compute_token, with the draw it was made of.
NoTask ==
  [op |-> "none", endpoint |-> <<>>, params |-> <<>>, rng |-> <<>>, salt |-> <<>>,
   auth_params |-> <<>>, url |-> NoUrl, method |-> "none"]

\* What the server answers a concurrent call with.
TaskResponses ==
  {Response("send_failed", 0, None, Bodies[1]),
   Response("ok", 200, ContentTypeHeaders[2], Bodies[3]),
   Response("ok", 200, ContentTypeHeaders[2], Bodies[9])}

\* A bug: the salt is kept in a place all tasks share, and a task signs with
\* the salt generated last.
SendSignedShared(i) ==
  /\ pc[i] = "salted"
  /\ \E salt \in {salt_log[Len(salt_log)]} :
       \E ps \in {<< <<<<"t">>, compute_token(client.auth.password, salt)>>, <<<<"s">>, salt>> >>} :
         \E url \in {build_url(client, call[i].endpoint, call[i].params, ps)} :
           /\ call' = [call EXCEPT ![i].auth_params = ps, ![i].url = url, ![i].method = "GET"]
           /\ sent' = Append(sent, [task |-> i, method |-> "GET", url |-> url, body |-> None])
  /\ pc' = [pc EXCEPT ![i] = "awaiting"]
  /\ UNCHANGED <<client, response, result, rng_log, salt_log, ncalls>>

\* Task i enters get_response -> build_url -> Auth::params and generates its
\* salt from a draw of its thread's generator.
GenerateSalt(i) ==
  /\ pc[i] = "ready"
  /\ \E r \in RngOutputs :
       \E salt \in {generate_salt(r)} :
         /\ call' = [call EXCEPT ![i] =
                       [NoTask EXCEPT !.op = "get_response", !.endpoint = ep_ping,
                                      !.params = << <<k_id, I32ToString(i)>> >>,
                                      !.rng = r, !.salt = salt]]
         /\ rng_log' = Append(rng_log, r)
         /\ salt_log' = Append(salt_log, salt)
  /\ pc' = [pc EXCEPT ![i] = "salted"]
  /\ ncalls' = ncalls + 1
  /\ UNCHANGED <<client, sent, response, result>>

\* Task i computes the token of its salt, finishes the URL and sends.
SendSigned(i) ==
  /\ pc[i] = "salted"
  /\ \E salt \in {call[i].salt} :
       \E ps \in {<< <<<<"t">>, compute_token(client.auth.password, salt)>>, <<<<"s">>, salt>> >>} :
         \E url \in {build_url(client, call[i].endpoint, call[i].params, ps)} :
           /\ call' = [call EXCEPT ![i].auth_params = ps, ![i].url = url, ![i].method = "GET"]
           /\ sent' = Append(sent, [task |-> i, method |-> "GET", url |-> url, body |-> None])
  /\ pc' = [pc EXCEPT ![i] = "awaiting"]
  /\ UNCHANGED <<client, response, result, rng_log, salt_log, ncalls>>

\* The response to task i's request comes and get_response returns.
Receive(i) ==
  /\ pc[i] = "awaiting"
  /\ \E resp \in TaskResponses :
       /\ response' = [response EXCEPT ![i] = resp]
       /\ result' = [result EXCEPT ![i] = GetResponseResult(resp)]
  /\ pc' = [pc EXCEPT ![i] = "done"]
  /\ UNCHANGED <<client, call, sent, rng_log, salt_log, ncalls>>

InitConcurrent ==
  /\ client = ClientNew(RawUrl(<<"/", "m", "u", "s", "i", "c">>, NoQuery, ""), admin, AuthToken(sesame))
  /\ pc = [i \in Tasks |-> "ready"]
  /\ call = [i \in Tasks |-> NoTask]
  /\ sent = <<>>
  /\ response = [i \in Tasks |-> NoResponse]
  /\ result = [i \in Tasks |-> NoResult]
  /\ rng_log = <<>>
  /\ salt_log = <<>>
  /\ ncalls = 0

NextConcurrent == \E i \in Tasks : GenerateSalt(i) \/ SendSigned(i) \/ Receive(i)

SpecConcurrent == InitConcurrent /\ [][NextConcurrent]_vars

(***************************************************************************)
(* The URL-only methods                                                    *)
(***************************************************************************)

\* The pair a method pushes for an optional argument that is given.
PushSome(key, o) == IF Len(o) = 1 THEN << <<key, o[1]>> >> ELSE <<>>

\* Option<i32>::map(|n| n.to_string()).
MapToString(o) == IF Len(o) = 1 THEN Some(I32ToString(o[1])) ELSE None

\* Client::stream_url, hls_url, cover_art_url and get_transcode_stream_url:
\* the endpoint and the parameter list each hands to build_url.
stream_url(id, max_bit_rate, format) ==
  [endpoint |-> ep_stream,
   params   |-> << <<k_id, id>> >>
                  \o PushSome(<<"m", "a", "x", "B", "i", "t", "R", "a", "t", "e">>, MapToString(max_bit_rate))
                  \o PushSome(k_format, format)]

hls_url(id, bit_rate, audio_track) ==
  [endpoint |-> ep_hls,
   params   |-> << <<k_id, id>> >>
                  \o PushSome(<<"b", "i", "t", "R", "a", "t", "e">>, bit_rate)
                  \o PushSome(<<"a", "u", "d", "i", "o", "T", "r", "a", "c", "k">>, audio_track)]

cover_art_url(id, size) ==
  [endpoint |-> <<"g", "e", "t", "C", "o", "v", "e", "r", "A", "r", "t">>,
   params   |-> << <<k_id, id>> >> \o PushSome(k_size, MapToString(size))]

get_transcode_stream_url(id, max_bit_rate, format) ==
  [endpoint |-> <<"g", "e", "t", "T", "r", "a", "n", "s", "c", "o", "d", "e", "S", "t", "r", "e", "a", "m">>,
   params   |-> << <<k_id, id>> >>
                  \o PushSome(<<"m", "a", "x", "B", "i", "t", "R", "a", "t", "e">>, MapToString(max_bit_rate))
                  \o PushSome(k_format, format)]

\* The calls of the URL-only methods the model makes: the method, with what
\* it hands to build_url for its arguments.
UrlMethodCalls ==
  {[op |-> "stream_url", built |-> stream_url(<<"4", "2">>, b, f)] : b \in MaxBitRates, f \in Formats}
    \cup {[op |-> "hls_url", built |-> hls_url(<<"4", "2">>, b, a)] :
            b \in {None, Some(<<"1", "2", "8">>)}, a \in {None, Some(<<"2">>)}}
    \cup {[op |-> "cover_art_url", built |-> cover_art_url(<<"a", "l", "-", "7">>, s)] : s \in MaxBitRates}
    \cup {[op |-> "get_transcode_stream_url", built |-> get_transcode_stream_url(<<"4", "2">>, b, f)] :
            b \in MaxBitRates, f \in Formats}

\* A bug: the method fetches the URL it has built.
UrlMethodSending ==
  /\ pc = "ready"
  /\ ncalls < MaxCalls
  /\ \E r \in RngOutputs :
       \E ps \in {params(client.auth, r)} :
         /\ Signed(r, ps)
         /\ \E m \in UrlMethodCalls :
              \E url \in {build_url(client, m.built.endpoint, m.built.params, ps)} :
                /\ call' = [op |-> m.op, endpoint |-> m.built.endpoint, params |-> m.built.params,
                            auth_params |-> ps, url |-> url, method |-> "none"]
                /\ result' = [kind |-> "Url", val |-> url]
                /\ sent' = Append(sent, [method |-> "GET", url |-> url, body |-> None])
  /\ pc' = "done"
  /\ ncalls' = ncalls + 1
  /\ UNCHANGED <<client, response>>

\* A URL-only method: it makes its parameter list and returns what build_url
\* returns.
UrlMethod ==
  /\ pc = "ready"
  /\ ncalls < MaxCalls
  /\ \E r \in RngOutputs :
       \E ps \in {params(client.auth, r)} :
         /\ Signed(r, ps)
         /\ \E m \in UrlMethodCalls :
              \E url \in {build_url(client, m.built.endpoint, m.built.params, ps)} :
                /\ call' = [op |-> m.op, endpoint |-> m.built.endpoint, params |-> m.built.params,
                            auth_params |-> ps, url |-> url, method |-> "none"]
                /\ result' = [kind |-> "Url", val |-> url]
  /\ pc' = "done"
  /\ ncalls' = ncalls + 1
  /\ UNCHANGED <<client, sent, response>>

NextUrlOnly == UrlMethod \/ Return

SpecUrlOnly == Init /\ [][NextUrlOnly]_vars

(***************************************************************************)
(* Endpoint methods that take lists                                        *)
(***************************************************************************)

\* A bug: an element that occurred earlier in the list is skipped.
PushEachDistinct(key, list) ==
  LET Keep(n) == \A m \in 1..(n - 1) : list[m] # list[n]
      F[n \in 0..Len(list)] ==
        IF n = 0 THEN <<>>
        ELSE IF Keep(n) THEN Append(F[n - 1], <<key, list[n]>>) ELSE F[n - 1]
  IN  F[Len(list)]

\* for x in list { params.push((key, x.to_string())); }
PushEach(key, list) == [n \in 1..Len(list) |-> <<key, list[n]>>]

\* to_string of each integer of a list.
IntsToStrings(list) == [n \in 1..Len(list) |-> I32ToString(list[n])]

\* bool::to_string.
BoolToString(b) == IF b THEN <<"t", "r", "u", "e">> ELSE <<"f", "a", "l", "s", "e">>

MapBoolToString(o) == IF Len(o) = 1 THEN Some(BoolToString(o[1])) ELSE None

\* f64::to_string of the non-negative number tenths / 10: the shortest
\* decimal that reads back as the number, without ".0" for a whole number.
F64ToString(tenths) ==
  IF tenths % 10 = 0 THEN Digits(tenths \div 10)
  ELSE Digits(tenths \div 10) \o <<".">> \o Digits(tenths % 10)

MapF64ToString(o) == IF Len(o) = 1 THEN Some(F64ToString(o[1])) ELSE None

star(ids, album_ids, artist_ids) ==
  [endpoint |-> <<"s", "t", "a", "r">>,
   params   |-> PushEach(k_id, ids) \o PushEach(<<"a", "l", "b", "u", "m", "I", "d">>, album_ids)
                  \o PushEach(<<"a", "r", "t", "i", "s", "t", "I", "d">>, artist_ids)]

unstar(ids, album_ids, artist_ids) ==
  [endpoint |-> <<"u", "n", "s", "t", "a", "r">>,
   params   |-> PushEach(k_id, ids) \o PushEach(<<"a", "l", "b", "u", "m", "I", "d">>, album_ids)
                  \o PushEach(<<"a", "r", "t", "i", "s", "t", "I", "d">>, artist_ids)]

save_play_queue(ids, current, position) ==
  [endpoint |-> <<"s", "a", "v", "e", "P", "l", "a", "y", "Q", "u", "e", "u", "e">>,
   params   |-> PushEach(k_id, ids) \o PushSome(<<"c", "u", "r", "r", "e", "n", "t">>, current)
                  \o PushSome(<<"p", "o", "s", "i", "t", "i", "o", "n">>, MapToString(position))]

save_play_queue_by_index(ids, current_index, position) ==
  [endpoint |-> <<"s", "a", "v", "e", "P", "l", "a", "y", "Q", "u", "e", "u", "e", "B", "y", "I", "n", "d", "e", "x">>,
   params   |-> PushEach(k_id, ids) \o PushSome(<<"c", "u", "r", "r", "e", "n", "t", "I", "n", "d", "e", "x">>, MapToString(current_index))
                  \o PushSome(<<"p", "o", "s", "i", "t", "i", "o", "n">>, MapToString(position))]

create_playlist(playlist_id, name, song_ids) ==
  [endpoint |-> <<"c", "r", "e", "a", "t", "e", "P", "l", "a", "y", "l", "i", "s", "t">>,
   params   |-> PushSome(<<"p", "l", "a", "y", "l", "i", "s", "t", "I", "d">>, playlist_id) \o PushSome(<<"n", "a", "m", "e">>, name)
                  \o PushEach(<<"s", "o", "n", "g", "I", "d">>, song_ids)]

update_playlist(playlist_id, name, comment, public, song_ids_to_add, song_indexes_to_remove) ==
  [endpoint |-> <<"u", "p", "d", "a", "t", "e", "P", "l", "a", "y", "l", "i", "s", "t">>,
   params   |-> << <<<<"p", "l", "a", "y", "l", "i", "s", "t", "I", "d">>, playlist_id>> >>
                  \o PushSome(<<"n", "a", "m", "e">>, name) \o PushSome(<<"c", "o", "m", "m", "e", "n", "t">>, comment)
                  \o PushSome(<<"p", "u", "b", "l", "i", "c">>, MapBoolToString(public))
                  \o PushEach(<<"s", "o", "n", "g", "I", "d", "T", "o", "A", "d", "d">>, song_ids_to_add)
                  \o PushEach(<<"s", "o", "n", "g", "I", "n", "d", "e", "x", "T", "o", "R", "e", "m", "o", "v", "e">>, IntsToStrings(song_indexes_to_remove))]

JukeboxAction ==
  {"Get", "Status", "Set", "Start", "Stop", "Skip", "Add", "Clear", "Remove", "Shuffle", "SetGain"}

\* JukeboxAction::as_str.
as_str(action) ==
  CASE action = "Get" -> <<"g", "e", "t">>
    [] action = "Status" -> <<"s", "t", "a", "t", "u", "s">>
    [] action = "Set" -> <<"s", "e", "t">>
    [] action = "Start" -> <<"s", "t", "a", "r", "t">>
    [] action = "Stop" -> <<"s", "t", "o", "p">>
    [] action = "Skip" -> <<"s", "k", "i", "p">>
    [] action = "Add" -> <<"a", "d", "d">>
    [] action = "Clear" -> <<"c", "l", "e", "a", "r">>
    [] action = "Remove" -> <<"r", "e", "m", "o", "v", "e">>
    [] action = "Shuffle" -> <<"s", "h", "u", "f", "f", "l", "e">>
    [] action = "SetGain" -> <<"s", "e", "t", "G", "a", "i", "n">>

jukebox_control(action, index, offset, ids, gain) ==
  [endpoint |-> <<"j", "u", "k", "e", "b", "o", "x", "C", "o", "n", "t", "r", "o", "l">>,
   params   |-> << <<<<"a", "c", "t", "i", "o", "n">>, as_str(action)>> >>
                  \o PushSome(<<"i", "n", "d", "e", "x">>, MapToString(index))
                  \o PushSome(<<"o", "f", "f", "s", "e", "t">>, MapToString(offset))
                  \o PushEach(k_id, ids)
                  \o PushSome(<<"g", "a", "i", "n">>, MapF64ToString(gain))]

\* The names of the optional role parameters of create_user, in the order
\* of the parameter list.
RoleKeys ==
  <<<<"l", "d", "a", "p", "A", "u", "t", "h", "e", "n", "t", "i", "c", "a", "t", "e", "d">>,
    <<"a", "d", "m", "i", "n", "R", "o", "l", "e">>,
    <<"s", "e", "t", "t", "i", "n", "g", "s", "R", "o", "l", "e">>,
    <<"s", "t", "r", "e", "a", "m", "R", "o", "l", "e">>,
    <<"j", "u", "k", "e", "b", "o", "x", "R", "o", "l", "e">>,
    <<"d", "o", "w", "n", "l", "o", "a", "d", "R", "o", "l", "e">>,
    <<"u", "p", "l", "o", "a", "d", "R", "o", "l", "e">>,
    <<"p", "l", "a", "y", "l", "i", "s", "t", "R", "o", "l", "e">>,
    <<"c", "o", "v", "e", "r", "A", "r", "t", "R", "o", "l", "e">>,
    <<"c", "o", "m", "m", "e", "n", "t", "R", "o", "l", "e">>,
    <<"p", "o", "d", "c", "a", "s", "t", "R", "o", "l", "e">>,
    <<"s", "h", "a", "r", "e", "R", "o", "l", "e">>,
    <<"v", "i", "d", "e", "o", "C", "o", "n", "v", "e", "r", "s", "i", "o", "n", "R", "o", "l", "e">>>>

\* The thirteen `if let Some(v) = role { params.push((name, v.to_string())) }`
\* of create_user, for the roles as a sequence in the order of RoleKeys.
PushRoles(roles) ==
  LET F[n \in 0..Len(roles)] ==
        IF n = 0 THEN <<>>
        ELSE F[n - 1] \o PushSome(RoleKeys[n], MapBoolToString(roles[n]))
  IN  F[Len(roles)]

create_user(username, password, email, roles, music_folder_ids) ==
  [endpoint |-> <<"c", "r", "e", "a", "t", "e", "U", "s", "e", "r">>,
   params   |-> << <<<<"u", "s", "e", "r", "n", "a", "m", "e">>, username>>, <<<<"p", "a", "s", "s", "w", "o", "r", "d">>, password>>, <<<<"e", "m", "a", "i", "l">>, email>> >>
                  \o PushRoles(roles)
                  \o PushEach(<<"m", "u", "s", "i", "c", "F", "o", "l", "d", "e", "r", "I", "d">>, IntsToStrings(music_folder_ids))]

\* self.get_response(..).await?; Ok(())
UnitResult(res) == IF res.kind # "Ok" THEN res ELSE [kind |-> "Unit", val |-> <<>>]

PlaylistWithSongsFields ==
  << <<"id", "String">>, <<"name", "String">>, <<"comment", "Option<String>">>,
     <<"owner", "Option<String>">>, <<"public", "Option<bool>">>,
     <<"songCount", "Option<i64>">>, <<"duration", "Option<i64>">>,
     <<"created", "Option<String>">>, <<"changed", "Option<String>">>,
     <<"coverArt", "Option<String>">>, <<"allowedUser", "Vec<String>">>,
     <<"readonly", "Option<bool>">>, <<"entry", "Vec<Child>">> >>

\* The part of create_playlist after get_response.
CreatePlaylistResult(res) ==
  IF res.kind # "Ok" THEN res
  ELSE LET playlist == MapGet(res.val, "playlist")
       IN  IF Len(playlist) = 0 THEN ErrParse(<<"Missing 'playlist' in response">>)
           ELSE FromValue(playlist[1], PlaylistWithSongsFields)

JukeboxStatusFields ==
  << <<"currentIndex", "i32">>, <<"playing", "bool">>, <<"volume", "f64">>,
     <<"position", "Option<i64>">> >>

\* serde_json::from_value into JukeboxStatus, and into JukeboxPlaylist, whose
\* status is flattened: only an object deserializes as a JukeboxPlaylist.
FromValueJukeboxStatus(v) ==
  IF StructOk(v, JukeboxStatusFields) THEN [kind |-> "Status", val |-> v] ELSE ErrParse(<<"{e}">>)

FromValueJukeboxPlaylist(v) ==
  IF v.t = "obj" /\ StructOk(v, JukeboxStatusFields \o << <<"entry", "Vec<Child>">> >>)
  THEN [kind |-> "Playlist", val |-> v]
  ELSE ErrParse(<<"{e}">>)

\* A bug: every action reads 'jukeboxStatus'.
JukeboxControlResultStatusOnly(action, res) ==
  IF res.kind # "Ok" THEN res
  ELSE LET status == MapGet(res.val, "jukeboxStatus")
       IN  IF Len(status) = 0 THEN ErrParse(<<"Missing 'jukeboxStatus' in response">>)
           ELSE FromValueJukeboxStatus(status[1])

\* The part of jukebox_control after get_response.
JukeboxControlResult(action, res) ==
  IF res.kind # "Ok" THEN res
  ELSE IF action = "Get"
  THEN LET playlist == MapGet(res.val, "jukeboxPlaylist")
       IN  IF Len(playlist) = 0 THEN ErrParse(<<"Missing 'jukeboxPlaylist' in response">>)
           ELSE FromValueJukeboxPlaylist(playlist[1])
  ELSE LET status == MapGet(res.val, "jukeboxStatus")
       IN  IF Len(status) = 0 THEN ErrParse(<<"Missing 'jukeboxStatus' in response">>)
           ELSE FromValueJukeboxStatus(status[1])

ListMethodResult(op, args, res) ==
  CASE op = "create_playlist" -> CreatePlaylistResult(res)
    [] op = "jukebox_control" -> JukeboxControlResult(args.action, res)
    [] OTHER -> UnitResult(res)

\* Inputs: id lists that are empty, have one element, two in both orders
\* and the same element twice.
IdLists == {<<>>, <<<<"4", "2">>>>, <<<<"4", "2">>, <<"7">>>>, <<<<"7">>, <<"4", "2">>>>,
            <<<<"4", "2">>, <<"4", "2">>>>}

FewIdLists == {<<>>, <<<<"7">>, <<"7">>>>, <<<<"7">>, <<"4", "2">>>>}

IndexLists == {<<>>, <<2, 0>>, <<1, 1>>}

NoRoles == [n \in 1..13 |-> None]

ListMethodCalls ==
  {[op |-> "star", args |-> [ids |-> i, album_ids |-> a, artist_ids |-> r], built |-> star(i, a, r)] :
     i \in IdLists, a \in FewIdLists, r \in {<<>>, <<<<"a", "r", "-", "1">>>>}}
    \cup {[op |-> "unstar", args |-> [ids |-> i, album_ids |-> a, artist_ids |-> r],
           built |-> unstar(i, a, r)] :
            i \in FewIdLists, a \in FewIdLists, r \in FewIdLists}
    \cup {[op |-> "save_play_queue", args |-> [ids |-> i, current |-> c, position |-> p],
           built |-> save_play_queue(i, c, p)] :
            i \in IdLists, c \in {None, Some(<<"7">>)}, p \in {None, Some(30)}}
    \cup {[op |-> "save_play_queue_by_index", args |-> [ids |-> i, current_index |-> c, position |-> p],
           built |-> save_play_queue_by_index(i, c, p)] :
            i \in IdLists, c \in {None, Some(1)}, p \in {None, Some(0)}}
    \cup {[op |-> "create_playlist", args |-> [playlist_id |-> p, name |-> n, song_ids |-> i],
           built |-> create_playlist(p, n, i)] :
            p \in {None, Some(<<"9">>)}, n \in {None, Some(<<"m", "i", "x">>)}, i \in IdLists}
    \cup {[op |-> "update_playlist",
           args |-> [playlist_id |-> <<"9">>, name |-> n, comment |-> None, public |-> p,
                     song_ids_to_add |-> i, song_indexes_to_remove |-> x],
           built |-> update_playlist(<<"9">>, n, None, p, i, x)] :
            n \in {None, Some(<<"m", "i", "x">>)}, p \in {None, Some(TRUE)},
            i \in FewIdLists, x \in IndexLists}
    \cup {[op |-> "jukebox_control",
           args |-> [action |-> a, index |-> x, offset |-> None, ids |-> i, gain |-> g],
           built |-> jukebox_control(a, x, None, i, g)] :
            a \in JukeboxAction, x \in {None, Some(0)}, i \in FewIdLists, g \in {None, Some(5)}}
    \cup {[op |-> "create_user",
           args |-> [username |-> <<"b", "o", "b">>, password |-> <<"p", "w">>,
                     email |-> <<"b", "@", "c">>, roles |-> r, music_folder_ids |-> f],
           built |-> create_user(<<"b", "o", "b">>, <<"p", "w">>, <<"b", "@", "c">>, r, f)] :
            r \in {NoRoles, [NoRoles EXCEPT ![2] = Some(TRUE), ![13] = Some(FALSE)]},
            f \in IndexLists \cup {<<3>>}}

ListMethods == {m.op : m \in ListMethodCalls}

JukeboxStatusOk ==
  <<"jukeboxStatus", JObj(<< <<"currentIndex", JInt(I64(0))>>, <<"playing", JBool(TRUE)>>,
                             <<"volume", JFloat("0.5")>> >>)>>

JukeboxPlaylistOk ==
  <<"jukeboxPlaylist",
    JObj(<< <<"currentIndex", JInt(I64(0))>>, <<"playing", JBool(TRUE)>>, <<"volume", JInt(I64(1))>>,
            <<"entry", JArr(<<JObj(<< <<"id", JStr("42")>>, <<"title", JStr("Song")>> >>)>>)>> >>)>>

ListBodies ==
  << Bodies[3], Bodies[9],
     Body("{\"subsonic-response\":{\"status\":\"ok\",\"playlist\":{\"id\":\"9\",\"name\":\"mix\"}}}",
          Envelope(<<StatusOk, <<"playlist", JObj(<< <<"id", JStr("9")>>, <<"name", JStr("mix")>> >>)>> >>)),
     Body("{\"subsonic-response\":{\"status\":\"ok\",\"jukeboxStatus\":{\"currentIndex\":0,\"playing\":true,\"volume\":0.5}}}",
          Envelope(<<StatusOk, JukeboxStatusOk>>)),
     Body("{\"subsonic-response\":{\"status\":\"ok\",\"jukeboxPlaylist\":{\"currentIndex\":0,\"playing\":true,\"volume\":1,\"entry\":[{\"id\":\"42\",\"title\":\"Song\"}]}}}",
          Envelope(<<StatusOk, JukeboxPlaylistOk>>)),
     Body("{\"subsonic-response\":{\"status\":\"ok\",\"jukeboxStatus\":{\"currentIndex\":0,\"playing\":true,\"volume\":0.5},\"jukeboxPlaylist\":{\"currentIndex\":0,\"playing\":true,\"volume\":1,\"entry\":[{\"id\":\"42\",\"title\":\"Song\"}]}}}",
          Envelope(<<StatusOk, JukeboxStatusOk, JukeboxPlaylistOk>>)),
     Body("{\"subsonic-response\":{\"status\":\"ok\",\"jukeboxStatus\":{\"currentIndex\":\"0\"},\"jukeboxPlaylist\":{\"currentIndex\":0,\"playing\":true,\"volume\":1,\"entry\":[{\"id\":\"42\",\"title\":\"Song\"}]}}}",
          Envelope(<<StatusOk, <<"jukeboxStatus", JObj(<< <<"currentIndex", JStr("0")>> >>)>>,
                     JukeboxPlaylistOk>>)),
     Body("{\"subsonic-response\":{\"status\":\"ok\",\"jukeboxStatus\":{\"currentIndex\":0,\"playing\":true,\"volume\":0.5},\"jukeboxPlaylist\":{\"currentIndex\":0}}}",
          Envelope(<<StatusOk, JukeboxStatusOk,
                     <<"jukeboxPlaylist", JObj(<< <<"currentIndex", JInt(I64(0))>> >>)>> >>)) >>

ListResponses ==
  {Response("send_failed", 0, None, Bodies[1]),
   Response("ok", 500, ContentTypeHeaders[2], Bodies[9])}
    \cup {Response("ok", 200, ContentTypeHeaders[2], ListBodies[b]) : b \in 1..Len(ListBodies)}

\* One of the list methods up to its await of get_response: the parameter
\* list is built from the arguments and the signed request is sent.
ListMethodBegin ==
  /\ pc = "ready"
  /\ ncalls < MaxCalls
  /\ \E r \in RngOutputs :
       \E ps \in {params(client.auth, r)} :
         /\ Signed(r, ps)
         /\ \E m \in ListMethodCalls :
              \E url \in {build_url(client, m.built.endpoint, m.built.params, ps)} :
                /\ call' = [op |-> m.op, endpoint |-> m.built.endpoint, params |-> m.built.params,
                            auth_params |-> ps, url |-> url, method |-> "GET", args |-> m.args]
                /\ sent' = <<[method |-> "GET", url |-> url, body |-> None]>>
  /\ pc' = "awaiting"
  /\ result' = NoResult
  /\ ncalls' = ncalls + 1
  /\ UNCHANGED <<client, response>>

ListMethodComplete ==
  /\ call.op \in ListMethods
  /\ \E resp \in ListResponses :
       Complete(call.op, resp, ListMethodResult(call.op, call.args, GetResponseResult(resp)))

NextLists == ListMethodBegin \/ ListMethodComplete \/ Return

SpecLists == Init /\ [][NextLists]_vars

\* The endpoint methods alone.
NextApi == EndpointBegin \/ EndpointComplete \/ Return

SpecApi == Init /\ [][NextApi]_vars

(***************************************************************************)
(* Properties                                                              *)
(***************************************************************************)

IsLowerHex(str) == \A i \in 1..Len(str) : \E k \in 1..16 : LowerHex[k] = str[i]

EndsWithSlash(path) == path # <<>> /\ path[Len(path)] = "/"

\* A request URL has been built in this state.
UrlBuilt == call.op # "none"

\* C1: the path of a built URL is the base URL's path, then "/" unless that
\* path ends with one, then "rest/" and the endpoint name; so base paths
\* "/music" and "/music/" give "/music/rest/E" and the root path "/rest/E".
C1_PathAppended ==
  UrlBuilt =>
    LET base == client.base_url.path
    IN  /\ call.url.path =
             base \o (IF EndsWithSlash(base) THEN <<>> ELSE <<"/">>)
                  \o <<"r", "e", "s", "t", "/">> \o call.endpoint
        /\ base \in {<<"/", "m", "u", "s", "i", "c">>, <<"/", "m", "u", "s", "i", "c", "/">>}
             => call.url.path = <<"/", "m", "u", "s", "i", "c", "/", "r", "e", "s", "t", "/">> \o call.endpoint
        /\ base = <<"/">> => call.url.path = <<"/", "r", "e", "s", "t", "/">> \o call.endpoint

C1_Witness ==
  /\ pc = "done"
  /\ client.base_url.path = <<"/", "m", "u", "s", "i", "c">>
  /\ call.endpoint = ep_getArtists
  /\ call.url.path = <<"/", "m", "u", "s", "i", "c", "/", "r", "e", "s", "t", "/",
                       "g", "e", "t", "A", "r", "t", "i", "s", "t", "s">>

\* The pairs build_url is to add for the call of this state: u, the
\* authenticator's output, v, c, f=json, then the caller's pairs.
ExpectedPairs ==
  << <<<<"u">>, client.username>> >>
    \o call.auth_params
    \o << <<<<"v">>, client.api_version>>, <<<<"c">>, client.client_name>>,
          <<<<"f">>, <<"j", "s", "o", "n">>>> >>
    \o call.params

\* C2 as stated: the query of a built URL is exactly u, the authenticator's
\* pairs, v, c, f=json and the caller's pairs in order, and nothing precedes u.
C2_QueryExact == UrlBuilt => QueryPairs(call.url) = ExpectedPairs

\* C2, what build_url does: it appends to whatever query the base URL carries,
\* so the query is the base URL's own pairs followed by u, the authenticator's
\* pairs, v, c, f=json and the caller's pairs in the order given.
C2_QueryAfterBaseQuery ==
  UrlBuilt => QueryPairs(call.url) = QueryPairs(client.base_url) \o ExpectedPairs

C2_Witness ==
  /\ pc = "done"
  /\ client.base_url.query.has /\ client.base_url.query.str # <<>>
  /\ client.auth.kind = "Token"
  /\ Len(call.params) = 3 /\ call.params[1] = call.params[3]
  /\ Len(QueryPairs(call.url)) = 10

\* C3: Auth::params under Token returns ("t", token), ("s", salt): the salt
\* is 12 lowercase hex characters, the token the 32 lowercase hex characters
\* of the MD5 digest of the password bytes followed by the salt characters;
\* for "sesame" and salt "abcdef012345" that is 2a723ef42ed623fd836ae0b62c9b7623.
C3_TokenParams ==
  (result.kind = "Params" /\ client.auth.kind = "Token") =>
    LET ps    == result.val
        token == ps[1][2]
        salt  == ps[2][2]
    IN  /\ Len(ps) = 2
        /\ ps[1][1] = <<"t">> /\ ps[2][1] = <<"s">>
        /\ Len(salt) = 12 /\ IsLowerHex(salt)
        /\ Len(token) = 32 /\ IsLowerHex(token)
        /\ token = hex_encode(Md5Finalize(as_bytes(client.auth.password) \o as_bytes(salt)))
        /\ (client.auth.password = sesame
              /\ salt = <<"a", "b", "c", "d", "e", "f", "0", "1", "2", "3", "4", "5">>)
             => token = <<"2", "a", "7", "2", "3", "e", "f", "4", "2", "e", "d", "6", "2", "3", "f", "d",
                          "8", "3", "6", "a", "e", "0", "b", "6", "2", "c", "9", "b", "7", "6", "2", "3">>

C3_Witness ==
  /\ result.kind = "Params" /\ client.auth = AuthToken(sesame)
  /\ result.val[2] = <<<<"s">>, <<"a", "b", "c", "d", "e", "f", "0", "1", "2", "3", "4", "5">>>>
  /\ result.val[1][2][1] = "2" /\ result.val[1][2][32] = "3"

\* "enc:" and the lowercase hex of the password bytes, written out.
EncHexOf(password) ==
  CASE password = sesame -> <<"e", "n", "c", ":", "7", "3", "6", "5", "7", "3", "6", "1", "6", "d", "6", "5">>
    [] password = <<"p", "a", "s", "s">> -> <<"e", "n", "c", ":", "7", "0", "6", "1", "7", "3", "7", "3">>
    [] password = <<"U+00E9", "&">> -> <<"e", "n", "c", ":", "c", "3", "a", "9", "2", "6">>

\* C4: Auth::params under Plain returns the one pair ("p", "enc:" + lowercase
\* hex of the password bytes), the same on every call; "sesame" gives
\* "enc:736573616d65".
C4_PlainParams ==
  (result.kind = "Params" /\ client.auth.kind = "Plain") =>
    result.val = << <<<<"p">>, EncHexOf(client.auth.password)>> >>

C4_Witness ==
  /\ ncalls = 2 /\ client.auth = AuthPlain(sesame)
  /\ result.val = << <<<<"p">>, <<"e", "n", "c", ":", "7", "3", "6", "5", "7", "3", "6", "1", "6", "d", "6", "5">>>> >>

\* C5 as stated: no salt is ever returned twice by the Token authenticator.
C5_SaltNeverReused ==
  \A i, j \in 1..Len(salt_log) : i # j => salt_log[i] # salt_log[j]

\* C5 amended: every Token signing makes its own draw of six random bytes
\* and returns a salt made from that draw, so two calls return different
\* salts whenever their draws differ (equal draws, which randomness does not
\* exclude, are the only way a salt repeats).
C5_FreshDrawPerCall ==
  /\ Len(salt_log) = Len(rng_log)
  /\ client.auth.kind = "Token" => Len(salt_log) = ncalls
  /\ \A i, j \in 1..Len(salt_log) :
       (salt_log[i] = salt_log[j]) <=> (rng_log[i] = rng_log[j])

C5_Witness ==
  /\ Len(salt_log) = 2
  /\ salt_log[1] # salt_log[2]

\* The pairs build_url itself added to the URL of this state.
AddedPairs ==
  LET all == QueryPairs(call.url)
      own == Len(QueryPairs(client.base_url))
  IN  SubSeq(all, own + 1, Len(all))

\* C6: under Token authentication the pairs build_url adds between u and v
\* are exactly t and s, no p is among the pairs it adds of its own, and
\* neither value is the password, its hex encoding or the plain form "enc:hex".
C6_TokenKeepsSecret ==
  (UrlBuilt /\ client.auth.kind = "Token") =>
    LET q   == AddedPairs
        hex == hex_encode(as_bytes(client.auth.password))
    IN  /\ Len(q) = 6 + Len(call.params)
        /\ q[1][1] = <<"u">> /\ q[2][1] = <<"t">> /\ q[3][1] = <<"s">> /\ q[4][1] = <<"v">>
        /\ \A i \in 1..6 : q[i][1] # <<"p">>
        /\ \A i \in 2..3 :
             q[i][2] \notin {client.auth.password, hex, <<"e", "n", "c", ":">> \o hex}

C6_Witness ==
  /\ pc = "done" /\ client.auth = AuthToken(sesame)
  /\ AddedPairs[2][1] = <<"t">> /\ Len(AddedPairs[2][2]) = 32

\* The inner object of a body, when the body is an envelope as the protocol
\* defines it: an object under "subsonic-response" with a string status, the
\* optional version, type and serverVersion strings and openSubsonic flag,
\* and, if it has an error object, one with a 32-bit integer code and an
\* optional string message.
InnerOf(body) == Get(body.json, "subsonic-response")[1]

HasType(o, tags) == Len(o) = 0 \/ o[1].t \in tags

WellFormedEnvelope(body) ==
  /\ body.json.t = "obj"
  /\ Len(Get(body.json, "subsonic-response")) = 1
  /\ InnerOf(body).t = "obj"
  /\ Len(Get(InnerOf(body), "status")) = 1 /\ Get(InnerOf(body), "status")[1].t = "str"
  /\ \A k \in {"version", "type", "serverVersion"} : HasType(Get(InnerOf(body), k), {"null", "str"})
  /\ HasType(Get(InnerOf(body), "openSubsonic"), {"null", "bool"})
  /\ HasType(Get(InnerOf(body), "error"), {"null", "obj"})
  /\ LET e == Get(InnerOf(body), "error")
     IN  (Len(e) = 1 /\ e[1].t = "obj") =>
           /\ Len(Get(e[1], "code")) = 1 /\ Get(e[1], "code")[1].t = "int"
           /\ Get(e[1], "code")[1].v[3] = Get(e[1], "code")[1].v[4]
           /\ Get(e[1], "code")[1].v[3] = (IF Get(e[1], "code")[1].v[2] >= 32768 THEN 65535 ELSE 0)
           /\ HasType(Get(e[1], "message"), {"null", "str"})

StatusOf(body) == Get(InnerOf(body), "status")[1].v

\* The error object of a well-formed envelope, if it carries one.
ErrorObjectOf(body) ==
  LET e == Get(InnerOf(body), "error")
  IN  IF Len(e) = 1 /\ e[1].t = "obj" THEN e ELSE <<>>

\* The operation of this state has finished and took the response's body to
\* an envelope decoder: the response came with a success status and, for
\* get_bytes, a JSON content type.
Decoded ==
  /\ pc = "done"
  /\ call.op \in {"get_response", "get_bytes", "get_transcode_decision"}
  /\ response.net = "ok" /\ response.status = 200
  /\ call.op = "get_bytes" => IsJsonContentType(ContentType(response.content_type))

PostDecoded == Decoded /\ call.op = "get_transcode_decision" /\ call.method = "POST"

\* C7: for a well-formed envelope whose status is not 'ok' and which carries
\* an error object, get_response returns Error::Api with the code of that
\* object and its message (the empty string when it has none), never the
\* payload map, whatever else the envelope holds; code 40 resolves to
\* WrongCredentials.
C7_ApiErrorFromErrorObject ==
  (Decoded /\ call.op = "get_response" /\ WellFormedEnvelope(response.body)
     /\ StatusOf(response.body) # "ok" /\ Len(ErrorObjectOf(response.body)) = 1) =>
    LET e   == ErrorObjectOf(response.body)[1]
        msg == Get(e, "message")
    IN  /\ result.kind = "Api"
        /\ I64(result.val.code) = Get(e, "code")[1].v
        /\ result.val.message = (IF Len(msg) = 1 /\ msg[1].t = "str" THEN msg[1].v ELSE "")
        /\ Get(e, "code")[1].v = <<40, 0, 0, 0>> => from_code(result.val.code) = <<"WrongCredentials">>

C7_Witness ==
  /\ Decoded /\ call.op = "get_response"
  /\ response.body.text = "{\"subsonic-response\":{\"status\":\"failed\",\"error\":{\"code\":40,\"message\":\"Wrong username or password\"}}}"
  /\ result = [kind |-> "Api", val |-> [code |-> 40, message |-> "Wrong username or password"]]

\* C8: on every envelope-decoding path a well-formed envelope whose status is
\* not 'ok' and which has no error object is decoded to Error::Api with code
\* 0 and a non-empty message.
C8_FallbackErrorHasMessage ==
  (Decoded /\ WellFormedEnvelope(response.body)
     /\ StatusOf(response.body) # "ok" /\ Len(ErrorObjectOf(response.body)) = 0) =>
    /\ result.kind = "Api"
    /\ result.val.code = 0
    /\ result.val.message # ""

\* C8, the state that refutes it: the POST branch of get_transcode_decision
\* has decoded such an envelope to code 0 with an empty message.
C8_Witness ==
  /\ PostDecoded
  /\ response.body.text = "{\"subsonic-response\":{\"status\":\"failed\"}}"
  /\ result = [kind |-> "Api", val |-> [code |-> 0, message |-> ""]]

\* The keys of the inner object of a body.
InnerKeys(body) == {InnerOf(body).v[i][1] : i \in 1..Len(InnerOf(body).v)}

\* C9: for a well-formed envelope with status 'ok' the map get_response
\* returns has every field of the inner object other than status, version,
\* type, serverVersion, openSubsonic and error, each with its value, and none
\* of those six.
C9_PayloadIsTheRest ==
  (Decoded /\ call.op = "get_response" /\ WellFormedEnvelope(response.body)
     /\ StatusOf(response.body) = "ok") =>
    /\ result.kind = "Ok"
    /\ DOMAIN result.val =
         InnerKeys(response.body)
           \ {"status", "version", "type", "serverVersion", "openSubsonic", "error"}
    /\ \A k \in DOMAIN result.val : result.val[k] = Get(InnerOf(response.body), k)[1]

C9_Witness ==
  /\ Decoded /\ call.op = "get_response" /\ WellFormedEnvelope(response.body)
  /\ InnerKeys(response.body) =
       {"status", "version", "type", "serverVersion", "openSubsonic", "license"}
  /\ result.kind = "Ok"
  /\ DOMAIN result.val = {"license"}
  /\ result.val["license"] = JObj(<< <<"valid", JBool(TRUE)>> >>)

\* C10: on every envelope-decoding path a body that is malformed JSON or
\* lacks the top-level "subsonic-response" key yields Error::Parse, and the
\* diagnostic contains the raw text of the body.
C10_ParseErrorCarriesText ==
  (Decoded /\ (response.body.json.t = "malformed"
                 \/ Len(Get(response.body.json, "subsonic-response")) = 0)) =>
    /\ result.kind = "Parse"
    /\ \E i \in 1..Len(result.val) : result.val[i] = response.body.text

\* C10, the state that refutes it: the POST branch of get_transcode_decision
\* has answered a body without the key with a diagnostic that lacks the text.
C10_Witness ==
  /\ PostDecoded
  /\ response.body.text = "{}"
  /\ result = [kind |-> "Parse", val |-> <<"Missing subsonic-response">>]

\* get_bytes has finished on a response that came with a success status.
BytesAnswered ==
  /\ pc = "done" /\ call.op = "get_bytes"
  /\ response.net \in {"ok", "body_failed"} /\ response.status = 200

\* The Content-Type headers of the model that name a JSON media type in
\* readable text: application/json, the same in capitals with a charset
\* parameter, and text/json.
JsonHeaders == {ContentTypeHeaders[2], ContentTypeHeaders[3], ContentTypeHeaders[4]}

\* The others: no header, a value that is not readable as ASCII text, and a
\* media type that is not JSON.
OtherHeaders == {ContentTypeHeaders[1], ContentTypeHeaders[5], ContentTypeHeaders[6]}

\* C11: when the Content-Type of a response to get_bytes names
\* application/json or text/json, in any letter case and with or without
\* parameters, the body is never returned as bytes; a well-formed envelope
\* whose status is not 'ok' gives Error::Api, with the code and message of the
\* error object when it carries one.
C11_JsonNeverReturnedAsBytes ==
  (BytesAnswered /\ response.content_type \in JsonHeaders) =>
    /\ result.kind # "Bytes"
    /\ (response.net = "ok" /\ WellFormedEnvelope(response.body)
          /\ StatusOf(response.body) # "ok") =>
         /\ result.kind = "Api"
         /\ Len(ErrorObjectOf(response.body)) = 1 =>
              LET e   == ErrorObjectOf(response.body)[1]
                  msg == Get(e, "message")
              IN  /\ I64(result.val.code) = Get(e, "code")[1].v
                  /\ result.val.message = (IF Len(msg) = 1 /\ msg[1].t = "str" THEN msg[1].v ELSE "")

C11_Witness ==
  /\ BytesAnswered /\ response.net = "ok"
  /\ response.content_type = ContentTypeHeaders[3]
  /\ response.body.text = "{\"subsonic-response\":{\"status\":\"failed\",\"error\":{\"code\":40,\"message\":\"Wrong username or password\"}}}"
  /\ result = [kind |-> "Api", val |-> [code |-> 40, message |-> "Wrong username or password"]]

\* C12: a response to get_bytes with a JSON content type whose body is a
\* well-formed envelope with status 'ok' gives Error::Parse, never bytes and
\* never Error::Api.
C12_OkEnvelopeOnBinaryIsParseError ==
  (BytesAnswered /\ response.net = "ok" /\ response.content_type \in JsonHeaders
     /\ WellFormedEnvelope(response.body) /\ StatusOf(response.body) = "ok") =>
    result.kind = "Parse"

C12_Witness ==
  /\ BytesAnswered /\ response.net = "ok"
  /\ response.content_type = ContentTypeHeaders[4]
  /\ response.body.text = "{\"subsonic-response\":{\"status\":\"ok\",\"version\":\"1.16.1\"}}"
  /\ result = [kind |-> "Parse", val |-> <<"Expected binary response but got JSON with status=ok">>]

\* C13: a successful response to get_bytes whose Content-Type is absent,
\* unreadable or names no JSON type gives Ok with exactly the body, also when
\* the body is the text of an envelope.
C13_OtherContentIsReturnedAsBytes ==
  (BytesAnswered /\ response.net = "ok" /\ response.content_type \in OtherHeaders) =>
    result = [kind |-> "Bytes", val |-> response.body.text]

C13_Witness ==
  /\ BytesAnswered /\ response.net = "ok"
  /\ response.content_type = ContentTypeHeaders[1]
  /\ response.body.text = "{\"subsonic-response\":{\"status\":\"failed\"}}"
  /\ result.kind = "Bytes" /\ result.val = response.body.text

\* C14: from_code gives Some(variant) exactly for the codes 0, 10, 20, 30, 40,
\* 41, 50, 60 and 70, each time the variant whose discriminant is the code
\* (from_code(v as i32) = Some(v) for every variant v), and None for every
\* other integer; an API error with a code from_code does not know still
\* carries the code and the message of the error object, and its
\* error_code() is None.
KnownCodes == {0, 10, 20, 30, 40, 41, 50, 60, 70}

C14_FromCodeTable ==
  /\ \A v \in SubsonicErrorCodes : from_code(Discriminant(v)) = <<v>>
  /\ (pc = "done" /\ call.op = "error_code") =>
       /\ result.kind = "ErrorCode"
       /\ result.val.error = [code |-> call.params[1], message |-> call.params[2]]
       /\ (call.params[1] \in KnownCodes) =>
             /\ Len(result.val.known) = 1
             /\ result.val.known[1] \in SubsonicErrorCodes
             /\ Discriminant(result.val.known[1]) = call.params[1]
       /\ (call.params[1] \notin KnownCodes) => result.val.known = <<>>

C14_Witness ==
  /\ pc = "done" /\ call.op = "error_code"
  /\ call.params = <<42, "Wrong username or password">>
  /\ result.val.known = <<>>
  /\ result.val.error.code = 42

\* The endpoint method of this state has finished on a success envelope:
\* the response came with status 200 and its body is a well-formed envelope
\* whose status is 'ok'.
MethodAnswered(methods) ==
  /\ pc = "done" /\ call.op \in methods
  /\ response.net = "ok" /\ response.status = 200
  /\ WellFormedEnvelope(response.body) /\ StatusOf(response.body) = "ok"

\* The payload field a method returning one object reads.
FieldOf(method) == IF method = "get_license" THEN "license" ELSE "lyrics"

\* C15: for every endpoint method that returns a mandatory single object, a
\* success envelope that lacks the method's field yields Error::Parse naming
\* the missing field; no value is made up.
C15_MissingFieldIsParseError ==
  \A method \in {"get_license", "get_lyrics"} :
    (MethodAnswered({method}) /\ Len(Get(InnerOf(response.body), FieldOf(method))) = 0) =>
      /\ result.kind = "Parse"
      /\ Len(result.val) = 1
      /\ result.val[1] = "Missing '" \o FieldOf(method) \o "' in response"

\* C15, for the methods that ask for their field with ok_or_else.
C15_MandatoryFieldMissing ==
  (MethodAnswered({"get_license"}) /\ Len(Get(InnerOf(response.body), "license")) = 0) =>
    result = ErrParse(<<"Missing 'license' in response">>)

\* get_lyrics on a success envelope without 'lyrics' returns a value.
C15_Witness ==
  /\ MethodAnswered({"get_lyrics"})
  /\ Len(Get(InnerOf(response.body), "lyrics")) = 0
  /\ result = [kind |-> "Object", val |-> JObj(<<>>)]

\* C16: for every endpoint method that returns a list, a success envelope in
\* which the container field, or the list field inside it, is absent yields
\* Ok with an empty list, not an error.
C16_AbsentListIsEmpty ==
  /\ (/\ MethodAnswered({"get_music_folders"})
      /\ Len(AndThenGet(Get(InnerOf(response.body), "musicFolders"), "musicFolder")) = 0) =>
       result = [kind |-> "List", val |-> <<>>]
  /\ (/\ MethodAnswered({"get_open_subsonic_extensions"})
      /\ Len(Get(InnerOf(response.body), "openSubsonicExtensions")) = 0) =>
       result = [kind |-> "List", val |-> <<>>]

\* get_music_folders answered with a container that holds no list.
C16_Witness ==
  /\ MethodAnswered({"get_music_folders"})
  /\ Get(InnerOf(response.body), "musicFolders") = <<JObj(<<>>)>>
  /\ result = [kind |-> "List", val |-> <<>>]

\* The operations that send a request.
RequestOps == {"get_response", "get_bytes", "get_transcode_decision"}

\* C17: every call builds its URL, sends, then decodes, and sends exactly one
\* request: the request carries the URL the call built and is sent before
\* there is a response or a result; once the response has come the call has a
\* result, whatever the outcome was, and nothing is sent after the first
\* request until the result has gone back to the caller.
C17_OneRequestPerCall ==
  [][/\ (pc = "ready" /\ pc' = "awaiting") =>
          /\ call'.op \in RequestOps
          /\ sent = <<>> /\ Len(sent') = 1
          /\ sent'[1].url = call'.url /\ sent'[1].method = call'.method
          /\ response' = NoResponse /\ result' = NoResult
     /\ pc = "awaiting" =>
          /\ pc' = "done"
          /\ sent' = sent /\ call' = call
          /\ response' # NoResponse /\ result' # NoResult
     /\ (pc = "done" /\ call.op \in RequestOps) =>
          /\ Len(sent) = 1
          /\ pc' = "ready" /\ sent' = <<>> /\ result' = NoResult
     /\ (sent' # sent /\ sent' # <<>>) => (pc = "ready" /\ pc' = "awaiting")]_vars

\* A call that ended in a Parse error after its one request.
C17_Witness ==
  /\ pc = "done" /\ call.op = "get_response"
  /\ Len(sent) = 1 /\ sent[1].url = call.url
  /\ response.net = "ok" /\ response.status = 200
  /\ result.kind = "Parse"

\* C18: when the send fails or the server answers with an error status
\* (400 to 599), get_response and get_bytes return Error::Http and the body
\* is not decoded: the result is never Error::Api, Error::Parse or Ok, even
\* when the body of the error response is a valid envelope.
C18_HttpErrorBeforeDecoding ==
  (/\ pc = "done" /\ call.op \in {"get_response", "get_bytes"}
   /\ (response.net = "send_failed" \/ response.status \in 400..599)) =>
    /\ result.kind = "Http"
    /\ result.kind \notin {"Api", "Parse", "Ok", "Bytes"}

\* get_bytes answered with status 500 and a failed envelope as body.
C18_Witness ==
  /\ pc = "done" /\ call.op = "get_bytes"
  /\ response.net = "ok" /\ response.status = 500
  /\ WellFormedEnvelope(response.body) /\ StatusOf(response.body) = "failed"
  /\ result.kind = "Http"

\* The values a list of query pairs has under a key, in order.
RECURSIVE ValuesOf(_, _)
ValuesOf(pairs, key) ==
  IF pairs = <<>> THEN <<>>
  ELSE (IF pairs[1][1] = key THEN <<pairs[1][2]>> ELSE <<>>) \o ValuesOf(Tail(pairs), key)

\* C20: Client::new sets the client name 'opensubsonic-rs' and the API
\* version '1.16.1'; with_client_name changes the client name and nothing
\* else, with_api_version the API version and nothing else; and every URL
\* built afterwards carries the client's name as 'c' and its version as 'v'.
C20_BuildersSetOneField ==
  /\ client.client_name = <<"o", "p", "e", "n", "s", "u", "b", "s", "o", "n", "i", "c", "-", "r", "s">>
  /\ client.api_version = <<"1", ".", "1", "6", ".", "1">>
  /\ [][/\ call'.op = "with_client_name" =>
             /\ client'.client_name = call'.params[1]
             /\ client'.api_version = client.api_version
             /\ client'.base_url = client.base_url
             /\ client'.username = client.username
             /\ client'.auth = client.auth
        /\ call'.op = "with_api_version" =>
             /\ client'.api_version = call'.params[1]
             /\ client'.client_name = client.client_name
             /\ client'.base_url = client.base_url
             /\ client'.username = client.username
             /\ client'.auth = client.auth
        /\ call'.op = "build_url" =>
             /\ client' = client
             /\ (call.op = "with_client_name" => client.client_name = call.params[1])
             /\ (call.op = "with_api_version" => client.api_version = call.params[1])
             /\ ValuesOf(QueryPairs(call'.url), <<"c">>) = <<client.client_name>>
             /\ ValuesOf(QueryPairs(call'.url), <<"v">>) = <<client.api_version>>]_vars

\* A URL built after both builder methods were called.
C20_Witness ==
  /\ pc = "done" /\ call.op = "build_url"
  /\ client.client_name = <<"a", " ", "&", "b">>
  /\ client.api_version = <<"1", ".", "1", "5", ".", "0">>
  /\ ValuesOf(QueryPairs(call.url), <<"c">>) = << <<"a", " ", "&", "b">> >>
  /\ ValuesOf(QueryPairs(call.url), <<"v">>) = << <<"1", ".", "1", "5", ".", "0">> >>

\* C19: no request operation changes the client's configuration: over every
\* step of build_url, get_response, get_bytes and get_transcode_decision,
\* whether the call succeeds or fails, the base URL, the user name, the
\* credentials, the client name and the API version stay what they were, so
\* they are always what the construction made them.
C19_ClientUnchanged ==
  [][/\ client'.base_url = client.base_url
     /\ client'.username = client.username
     /\ client'.auth = client.auth
     /\ client'.client_name = client.client_name
     /\ client'.api_version = client.api_version
     /\ client' \in PipelineClients]_vars

\* The second call of a client has failed with an API error.
C19_Witness ==
  /\ pc = "done" /\ ncalls = 2
  /\ call.op \in RequestOps /\ result.kind = "Api"
  /\ client \in PipelineClients

Sending == {i \in Tasks : pc[i] \in {"awaiting", "done"}}

\* C22 as stated, the part that fails: no two concurrent calls carry the
\* same salt.
C22_ConcurrentSaltsDistinct ==
  \A i, j \in Sending : i # j => call[i].salt # call[j].salt

\* C22 amended: under every interleaving of the calls issued concurrently on
\* one shared Token client, each request's URL carries the salt that call
\* generated and the token md5(secret || salt) of that same salt; each call
\* sends its own request once; two calls carry the same salt exactly when
\* their draws were the same; and what a call returns is determined by the
\* response to its own request.
C22_EachCallSignsItsOwnSalt ==
  /\ \A i \in Sending :
       /\ ValuesOf(QueryPairs(call[i].url), <<"s">>) = <<call[i].salt>>
       /\ call[i].salt = generate_salt(call[i].rng)
       /\ pc[i] = "awaiting" =>
            ValuesOf(QueryPairs(call[i].url), <<"t">>)
              = <<compute_token(client.auth.password, call[i].salt)>>
       /\ ValuesOf(QueryPairs(call[i].url), k_id) = <<I32ToString(i)>>
       /\ Cardinality({n \in 1..Len(sent) : sent[n].task = i}) = 1
       /\ \A n \in 1..Len(sent) : sent[n].task = i => sent[n].url = call[i].url
  /\ \A i, j \in Sending : (call[i].salt = call[j].salt) <=> (call[i].rng = call[j].rng)
  /\ \A i, j \in Tasks :
       (pc[i] = "done" /\ pc[j] = "done" /\ response[i] = response[j]) => result[i] = result[j]
  /\ \A i \in Tasks :
       (pc[i] = "done" /\ response[i].net = "ok") =>
          result[i].kind = (IF StatusOf(response[i].body) = "ok" THEN "Ok" ELSE "Api")

\* Two calls in flight at once with salts of different draws, the second
\* task having generated its salt before the first task signed.
C22_Witness ==
  /\ pc[1] = "awaiting" /\ pc[2] = "done"
  /\ call[1].salt # call[2].salt
  /\ rng_log = <<call[2].rng, call[1].rng>>
  /\ sent[1].task = 1 /\ sent[2].task = 2
  /\ result[2].kind = "Api"

\* The keys of a list of pairs, in order.
KeysOf(pairs) == [n \in 1..Len(pairs) |-> pairs[n][1]]

k_maxBitRate == <<"m", "a", "x", "B", "i", "t", "R", "a", "t", "e">>

\* C23: get_transcode_decision sends a POST request with the client info as
\* JSON body when it is given one and a GET request without a body when it
\* is given none; either way the URL of the request is the one build_url
\* makes: u, the authenticator's pairs, v, c, f=json, then id, then
\* maxBitRate and format when they are given, in that order (the query is
\* read when the request goes out; the URL does not change afterwards).
C23_PostIffClientInfo ==
  (pc \in {"awaiting", "done"} /\ call.op = "get_transcode_decision") =>
    /\ Len(sent) = 1
    /\ sent[1].method \in {"GET", "POST"}
    /\ sent[1].method = "POST" <=> Len(sent[1].body) = 1
    /\ sent[1].method = "POST" => sent[1].body \in ClientInfos
    /\ sent[1].url = call.url
    /\ UrlPath(call.url) = UrlPath(client.base_url) \o <<"/", "r", "e", "s", "t", "/">> \o ep_getTranscodeDecision
    /\ pc = "awaiting" => QueryPairs(call.url) = ExpectedPairs
    /\ KeysOf(call.params) \in {<<k_id>>, <<k_id, k_maxBitRate>>, <<k_id, k_format>>,
                                <<k_id, k_maxBitRate, k_format>>}

\* A POST with a client info, a bit rate and a format.
C23_Witness ==
  /\ pc = "awaiting" /\ call.op = "get_transcode_decision"
  /\ sent[1].method = "POST" /\ Len(sent[1].body) = 1
  /\ KeysOf(call.params) = <<k_id, k_maxBitRate, k_format>>
  /\ KeysOf(QueryPairs(sent[1].url))[1] = <<"u">>

UrlOnlyOps == {"stream_url", "hls_url", "cover_art_url", "get_transcode_stream_url"}

\* The endpoint name and the optional keys, in order, of a URL-only method.
UrlOnlyEndpoint(op) ==
  CASE op = "stream_url" -> <<"s", "t", "r", "e", "a", "m">>
    [] op = "hls_url" -> <<"h", "l", "s", ".", "m", "3", "u", "8">>
    [] op = "cover_art_url" -> <<"g", "e", "t", "C", "o", "v", "e", "r", "A", "r", "t">>
    [] op = "get_transcode_stream_url" ->
         <<"g", "e", "t", "T", "r", "a", "n", "s", "c", "o", "d", "e", "S", "t", "r", "e", "a", "m">>

UrlOnlyOptionalKeys(op) ==
  CASE op = "hls_url" -> <<<<"b", "i", "t", "R", "a", "t", "e">>,
                           <<"a", "u", "d", "i", "o", "T", "r", "a", "c", "k">>>>
    [] op = "cover_art_url" -> <<<<"s", "i", "z", "e">>>>
    [] OTHER -> <<k_maxBitRate, <<"f", "o", "r", "m", "a", "t">>>>

\* Whether the sequence s is t with some of its elements left out.
RECURSIVE IsSubSeq(_, _)
IsSubSeq(s, t) ==
  IF s = <<>> THEN TRUE
  ELSE IF t = <<>> THEN FALSE
  ELSE IF s[1] = t[1] THEN IsSubSeq(Tail(s), Tail(t))
  ELSE IsSubSeq(s, Tail(t))

\* C24: stream_url, hls_url, cover_art_url and get_transcode_stream_url never
\* send a request: each returns the URL build_url makes for its endpoint
\* ('stream', 'hls.m3u8', 'getCoverArt', 'getTranscodeStream'), with 'id'
\* first among the caller's pairs and the optional parameters that were
\* given after it, in the method's order.
C24_UrlOnlyMethodsSendNothing ==
  /\ call.op \in UrlOnlyOps => (sent = <<>> /\ response = NoResponse)
  /\ (pc = "done" /\ call.op \in UrlOnlyOps) =>
       /\ result = [kind |-> "Url", val |-> call.url]
       /\ call.url = build_url(client, UrlOnlyEndpoint(call.op), call.params, call.auth_params)
       /\ UrlPath(call.url) = UrlPath(client.base_url) \o <<"/", "r", "e", "s", "t", "/">>
                                \o UrlOnlyEndpoint(call.op)
       /\ QueryPairs(call.url) = ExpectedPairs
       /\ Len(call.params) >= 1
       /\ call.params[1][1] = <<"i", "d">>
       /\ IsSubSeq(Tail(KeysOf(call.params)), UrlOnlyOptionalKeys(call.op))

\* cover_art_url called with a size.
C24_Witness ==
  /\ pc = "done" /\ call.op = "cover_art_url"
  /\ call.params = << <<<<"i", "d">>, <<"a", "l", "-", "7">>>>, <<<<"s", "i", "z", "e">>, <<"3", "2", "0">>>> >>
  /\ sent = <<>>
  /\ result.kind = "Url"

\* The body is an object whose member "subsonic-response" is an object in
\* which every field but the status is absent or of its type.
WellFormedBesidesStatus(body) ==
  /\ body.json.t = "obj"
  /\ Len(Get(body.json, "subsonic-response")) = 1
  /\ InnerOf(body).t = "obj"
  /\ \A k \in {"version", "type", "serverVersion"} : HasType(Get(InnerOf(body), k), {"null", "str"})
  /\ HasType(Get(InnerOf(body), "openSubsonic"), {"null", "bool"})
  /\ LET e == Get(InnerOf(body), "error")
     IN  \/ Len(e) = 0
         \/ e[1].t = "null"
         \/ /\ e[1].t = "obj"
            /\ Len(Get(e[1], "code")) = 1 /\ Get(e[1], "code")[1].t = "int"
            /\ Get(e[1], "code")[1].v[3] = Get(e[1], "code")[1].v[4]
            /\ Get(e[1], "code")[1].v[3] = (IF Get(e[1], "code")[1].v[2] >= 32768 THEN 65535 ELSE 0)
            /\ HasType(Get(e[1], "message"), {"null", "str"})

\* The status member of the envelope, if it has one.
StatusField(body) == Get(InnerOf(body), "status")

Succeeded == result.kind \in {"Ok", "Decision", "Bytes"}

\* C25 as stated: every status that is not the literal 'ok', an absent
\* status included, yields Error::Api on every decoding path.
C25_NotOkIsApiError ==
  (Decoded /\ WellFormedBesidesStatus(response.body)
           /\ StatusField(response.body) # <<JStr("ok")>>) =>
    result.kind = "Api"

\* C25 amended: on every envelope-decoding path the status is compared with
\* the literal 'ok'.  Every other status string ('failed', 'OK', 'Ok', the
\* empty string) yields Error::Api; a status that is absent or no string
\* yields Error::Parse from get_response and get_bytes, whose envelope type
\* requires the field, and Error::Api from the POST branch of
\* get_transcode_decision; none of them is ever a success.
C25_OnlyLiteralOkSucceeds ==
  (Decoded /\ WellFormedBesidesStatus(response.body)) =>
    LET st == StatusField(response.body)
    IN  /\ (Len(st) = 1 /\ st[1].t = "str" /\ st[1].v # "ok") => result.kind = "Api"
        /\ (Len(st) = 0 \/ st[1].t # "str") =>
             result.kind = (IF PostDecoded THEN "Api" ELSE "Parse")
        /\ Succeeded => st = <<JStr("ok")>>

\* get_response answered with an envelope whose status is 'OK'.
C25_Witness ==
  /\ Decoded /\ call.op = "get_response"
  /\ WellFormedBesidesStatus(response.body)
  /\ StatusField(response.body) = <<JStr("OK")>>
  /\ result.kind = "Api"

\* What the GET branch of get_transcode_decision, which decodes with
\* get_response, makes of the response of this state.
SharedDecoderResult == GetTranscodeDecisionResult("GET", response)

\* C26: for every response body the POST branch of get_transcode_decision
\* classifies the body as the decoder of get_response does: both give a parse
\* failure, or both an API error with the same code and message, or both a
\* success with the same transcodeDecision.
C26_PostDecoderAgrees ==
  PostDecoded =>
    /\ result.kind = SharedDecoderResult.kind
    /\ result.kind \in {"Api", "Decision"} => result.val = SharedDecoderResult.val

\* C26, where it does hold: on a well-formed envelope that succeeded, or that
\* failed and carries its error object, the two decoders agree.
C26_AgreeOnWellFormedEnvelopes ==
  (/\ PostDecoded /\ WellFormedEnvelope(response.body)
   /\ (StatusOf(response.body) = "ok" \/ Len(ErrorObjectOf(response.body)) = 1)) =>
    /\ result.kind = SharedDecoderResult.kind
    /\ result.kind \in {"Api", "Decision"} => result.val = SharedDecoderResult.val

\* The POST branch and the shared decoder both report an API error for a
\* failed envelope without error object, with different messages.
C26_Witness ==
  /\ PostDecoded
  /\ response.body.text = "{\"subsonic-response\":{\"status\":\"failed\"}}"
  /\ result = ErrApi(0, "")
  /\ SharedDecoderResult = ErrApi(0, "Unknown API error (status != ok but no error object)")

\* The integer 'code' of the error object a body carries, as the 64-bit
\* integer the server wrote, if the body carries one.
IntegerCodeOf(body) ==
  AsI64(AndThenGet(AndThenGet(Get(body.json, "subsonic-response"), "error"), "code"))

\* C27: whenever a decoding path returns Error::Api for an envelope that
\* carries an error object, the returned code equals the integer 'code' of
\* that object, also for integers outside the 32-bit signed range.
C27_ApiCodeIsServerCode ==
  (Decoded /\ result.kind = "Api" /\ Len(IntegerCodeOf(response.body)) = 1) =>
    I64(result.val.code) = IntegerCodeOf(response.body)[1]

\* C27, where it does hold: the returned code equals the server's code when
\* that code is a 32-bit signed integer, and the typed decoder of get_response
\* and get_bytes returns no Error::Api for any other code.
C27_ApiCodeWithinI32 ==
  (Decoded /\ result.kind = "Api" /\ Len(IntegerCodeOf(response.body)) = 1) =>
    /\ FitsI32(IntegerCodeOf(response.body)[1]) =>
         I64(result.val.code) = IntegerCodeOf(response.body)[1]
    /\ ~PostDecoded => FitsI32(IntegerCodeOf(response.body)[1])

\* The POST branch of get_transcode_decision answered with code 4294967336
\* returns code 40.
C27_Witness ==
  /\ PostDecoded
  /\ IntegerCodeOf(response.body) = Some(<<40, 0, 1, 0>>)
  /\ result = ErrApi(40, "wide")

\* The envelope of a body has a JSON object as its 'error' member.
CarriesErrorObject(body) ==
  LET e == AndThenGet(Get(body.json, "subsonic-response"), "error")
  IN  Len(e) = 1 /\ e[1].t = "obj"

\* C28: a decoded result never combines success with an error: for a body
\* that is a JSON object, when get_response returns Ok(payload) the envelope
\* had status 'ok' and carried no error object, and when the envelope carries
\* an error object the result is Error::Api.
C28_NeverSuccessWithErrorObject ==
  (Decoded /\ call.op = "get_response" /\ response.body.json.t = "obj") =>
    /\ result.kind = "Ok" =>
         StatusField(response.body) = <<JStr("ok")>> /\ ~CarriesErrorObject(response.body)
    /\ CarriesErrorObject(response.body) => result.kind = "Api"

\* C28, as the code has it, for a body that is a JSON object: the status
\* alone decides. Ok(payload) is returned only for status 'ok' and its
\* payload never holds the error object; Error::Api is returned only for a
\* status other than 'ok'; a well-formed envelope that carries an error
\* object gives Ok(payload) when its status is 'ok' and Error::Api with the
\* object's code otherwise.
C28_StatusDecidesNotErrorObject ==
  (Decoded /\ call.op = "get_response" /\ response.body.json.t = "obj") =>
    /\ result.kind = "Ok" =>
         StatusField(response.body) = <<JStr("ok")>> /\ "error" \notin DOMAIN result.val
    /\ result.kind = "Api" =>
         StatusField(response.body)[1].t = "str" /\ StatusField(response.body)[1].v # "ok"
    /\ (WellFormedEnvelope(response.body) /\ CarriesErrorObject(response.body)) =>
         IF StatusOf(response.body) = "ok"
         THEN result.kind = "Ok"
         ELSE result.kind = "Api" /\ I64(result.val.code) = IntegerCodeOf(response.body)[1]

\* get_response returns the payload of an envelope with status 'ok' that
\* carries an error object.
C28_Witness ==
  /\ Decoded /\ call.op = "get_response"
  /\ WellFormedEnvelope(response.body) /\ CarriesErrorObject(response.body)
  /\ StatusOf(response.body) = "ok"
  /\ result.kind = "Ok" /\ DOMAIN result.val = {"license"}

\* The decimal text of the small integers the index lists hold.
DecimalText(n) == << <<"0">>, <<"1">>, <<"2">>, <<"3">> >>[n + 1]

DecimalTexts(list) == [n \in 1..Len(list) |-> DecimalText(list[n])]

\* The list arguments of the call of this state, each with the key its
\* elements are sent under and its elements as text, in the order the method
\* is to emit them.
ListArguments ==
  CASE call.op \in {"star", "unstar"} ->
         << <<<<"i", "d">>, call.args.ids>>, <<<<"a", "l", "b", "u", "m", "I", "d">>, call.args.album_ids>>,
            <<<<"a", "r", "t", "i", "s", "t", "I", "d">>, call.args.artist_ids>> >>
    [] call.op \in {"save_play_queue", "save_play_queue_by_index", "jukebox_control"} ->
         << <<<<"i", "d">>, call.args.ids>> >>
    [] call.op = "create_playlist" -> << <<<<"s", "o", "n", "g", "I", "d">>, call.args.song_ids>> >>
    [] call.op = "update_playlist" ->
         << <<<<"s", "o", "n", "g", "I", "d", "T", "o", "A", "d", "d">>, call.args.song_ids_to_add>>,
            <<<<"s", "o", "n", "g", "I", "n", "d", "e", "x", "T", "o", "R", "e", "m", "o", "v", "e">>, DecimalTexts(call.args.song_indexes_to_remove)>> >>
    [] call.op = "create_user" ->
         << <<<<"m", "u", "s", "i", "c", "F", "o", "l", "d", "e", "r", "I", "d">>, DecimalTexts(call.args.music_folder_ids)>> >>

\* n times the key.
Repeated(key, n) == [i \in 1..n |-> key]

\* C29: an endpoint method that takes id lists emits one query pair per list
\* element under the same repeated key, in the order of the list and with
\* duplicates kept, an empty list contributing no pair; star and unstar emit
\* all 'id' pairs, then all 'albumId' pairs, then all 'artistId' pairs; the
\* pairs are the tail of the query of the request that is sent.
C29_OnePairPerListElement ==
  (pc \in {"awaiting", "done"} /\ call.op \in ListMethods) =>
    /\ \A n \in 1..Len(ListArguments) :
         ValuesOf(call.params, ListArguments[n][1]) = ListArguments[n][2]
    /\ call.op \in {"star", "unstar"} =>
         KeysOf(call.params) = Repeated(<<"i", "d">>, Len(call.args.ids))
                                 \o Repeated(<<"a", "l", "b", "u", "m", "I", "d">>, Len(call.args.album_ids))
                                 \o Repeated(<<"a", "r", "t", "i", "s", "t", "I", "d">>, Len(call.args.artist_ids))
    /\ Len(sent) = 1 /\ sent[1].url = call.url /\ sent[1].method = "GET"
    /\ pc = "awaiting" => QueryPairs(call.url) = ExpectedPairs

\* star is called with the same id twice, no album id and one artist id, and
\* has sent its request.
C29_Witness ==
  /\ pc = "awaiting" /\ call.op = "star"
  /\ call.args = [ids |-> <<<<"4", "2">>, <<"4", "2">>>>, album_ids |-> <<>>,
                  artist_ids |-> <<<<"a", "r", "-", "1">>>>]
  /\ call.params = << <<<<"i", "d">>, <<"4", "2">>>>, <<<<"i", "d">>, <<"4", "2">>>>,
                      <<<<"a", "r", "t", "i", "s", "t", "I", "d">>, <<"a", "r", "-", "1">>>> >>

\* jukebox_control has finished on a response that get_response decoded to a
\* payload: a success status, a well-formed envelope with status 'ok'.
JukeboxAnswered ==
  /\ pc = "done" /\ call.op = "jukebox_control"
  /\ response.net = "ok" /\ response.status = 200
  /\ WellFormedEnvelope(response.body) /\ StatusOf(response.body) = "ok"

\* The payload field the claim ties to the action of this state's call.
JukeboxField == IF call.args.action = "Get" THEN "jukeboxPlaylist" ELSE "jukeboxStatus"

\* C30: jukebox_control returns JukeboxResult::Playlist if and only if the
\* action is Get, reading only the 'jukeboxPlaylist' field, and
\* JukeboxResult::Status for every other action, reading only the
\* 'jukeboxStatus' field; when the field of the action is absent the result is
\* Error::Parse even if the other field is present.
C30_JukeboxResultFollowsAction ==
  /\ (pc = "done" /\ call.op = "jukebox_control" /\ ~JukeboxAnswered) =>
       result.kind \notin {"Playlist", "Status"}
  /\ JukeboxAnswered =>
       LET field == Get(InnerOf(response.body), JukeboxField)
       IN  /\ result.kind \in {"Playlist", "Status", "Parse"}
           /\ result.kind = "Playlist" => call.args.action = "Get"
           /\ result.kind = "Status" => call.args.action # "Get"
           /\ Len(field) = 0 =>
                result = ErrParse(<<IF call.args.action = "Get"
                                    THEN "Missing 'jukeboxPlaylist' in response"
                                    ELSE "Missing 'jukeboxStatus' in response">>)
           /\ (Len(field) = 1 /\ result.kind # "Parse") => result.val = field[1]
           /\ field = <<JukeboxPlaylistOk[2]>> => result = [kind |-> "Playlist", val |-> field[1]]
           /\ field = <<JukeboxStatusOk[2]>> => result = [kind |-> "Status", val |-> field[1]]

\* The action Get answered with a payload that has 'jukeboxStatus' and no
\* 'jukeboxPlaylist' gives the parse error of the missing playlist.
C30_Witness ==
  /\ JukeboxAnswered /\ call.args.action = "Get"
  /\ Len(Get(InnerOf(response.body), "jukeboxStatus")) = 1
  /\ Len(Get(InnerOf(response.body), "jukeboxPlaylist")) = 0
  /\ result = ErrParse(<<"Missing 'jukeboxPlaylist' in response">>)
====
